---- MODULE Spec2Model ----
(***************************************************************************)
(* FormatParser of financial-data-parser (src/core/format_parser.py):      *)
(* parse_amount, parse_amount_vectorized and parse_date, as operators over *)
(* strings, and one action per entry point that applies it to an input.    *)
(*                                                                         *)
(* A string is a sequence of characters; a character is a one-element      *)
(* TLA+ string.  The currency signs that are not ASCII are written by      *)
(* their ISO names: "EUR", "INR", "GBP" and "JPY" each stand for ONE       *)
(* character.  A Decimal is a record [neg, digs, exp] whose value is       *)
(* (-1)^neg * digs * 10^exp, digs a sequence of digits: coefficients are   *)
(* never machine integers, as in Python.                                   *)
(***************************************************************************)
EXTENDS Integers, Sequences, FiniteSets, TLC

VARIABLES
    raw,      \* the value given to parse_amount or parse_date (a string or Null)
    given,    \* the decimal the input was formatted from (round trip), or NoDecimal
    column,   \* the series given to parse_amount_vectorized
    amount,   \* what parse_amount returned or raised
    batch,    \* what parse_amount_vectorized returned or raised
    date,     \* what parse_date returned or raised
    detect_series, \* the column given to TypeDetector.detect
    table,    \* the table given to TypeDetector.detect_all: <<name, column>> pairs
    oracle,   \* the texts the format-free pd.to_datetime reads as a date
    detection,    \* what detect or detect_all returned or raised
    filters,      \* warnings.filters, the process-wide filter list
    threads,      \* the concurrent calls of detect: input, position, result
    df,           \* the frame given to DataStorage.store
    dataframes,   \* DataStorage.dataframes
    amount_range, \* the amount_range given to DataStorage.query
    queried,      \* what DataStorage.query, aggregate or sql returned
    local,        \* DataStorage.local: the SQLite tables of each thread's connection
    stored_by     \* history: the frame each thread last gave to store

parserVars == <<raw, given, column, amount, batch, date>>

detectorVars == <<detect_series, table, oracle, detection>>

threadVars == <<filters, threads>>

storageVars == <<df, dataframes, amount_range, queried, local, stored_by>>

vars == <<parserVars, detectorVars, threadVars, storageVars>>

(***************************************************************************)
(* Characters and strings                                                  *)
(***************************************************************************)
\* a missing cell (None, NaN): a value that is no string.  It is written as a
\* one-element sequence whose element is no character.
Null == <<"NULL">>

Digit == {"0", "1", "2", "3", "4", "5", "6", "7", "8", "9"}

DigitVal(c) ==
    CASE c = "0" -> 0 [] c = "1" -> 1 [] c = "2" -> 2 [] c = "3" -> 3
      [] c = "4" -> 4 [] c = "5" -> 5 [] c = "6" -> 6 [] c = "7" -> 7
      [] c = "8" -> 8 [] c = "9" -> 9

DigitChar(n) ==
    CASE n = 0 -> "0" [] n = 1 -> "1" [] n = 2 -> "2" [] n = 3 -> "3"
      [] n = 4 -> "4" [] n = 5 -> "5" [] n = 6 -> "6" [] n = 7 -> "7"
      [] n = 8 -> "8" [] n = 9 -> "9"

IsDigit(c) == c \in Digit

IsSpace(c) == c = " "

\* the characters of [€$₹£¥]
Currency == {"$", "EUR", "INR", "GBP", "JPY"}

\* [KkMmBb]
SuffixLetter == {"K", "k", "M", "m", "B", "b"}

Upper(c) ==
    CASE c = "k" -> "K" [] c = "m" -> "M" [] c = "b" -> "B" [] c = "q" -> "Q"
      [] OTHER -> c

\* str.strip()
RECURSIVE LStrip(_)
LStrip(s) == IF s # <<>> /\ IsSpace(Head(s)) THEN LStrip(Tail(s)) ELSE s

RECURSIVE RStrip(_)
RStrip(s) ==
    IF s # <<>> /\ IsSpace(s[Len(s)]) THEN RStrip(SubSeq(s, 1, Len(s) - 1)) ELSE s

Strip(s) == RStrip(LStrip(s))

StartsWith(s, c) == s # <<>> /\ s[1] = c

EndsWith(s, c) == s # <<>> /\ s[Len(s)] = c

\* c in s
Contains(s, c) == \E i \in DOMAIN s : s[i] = c

\* s.count(c)
Count(s, c) == Cardinality({i \in DOMAIN s : s[i] = c})

\* s.rfind(c): the 0-based index of the last c, -1 when there is none
RFind(s, c) ==
    IF Contains(s, c)
    THEN (CHOOSE i \in DOMAIN s : s[i] = c /\ \A j \in DOMAIN s : s[j] = c => j <= i) - 1
    ELSE -1

\* s.replace(c, ''): every c removed
Remove(s, c) ==
    LET Keep(x) == x # c IN SelectSeq(s, Keep)

\* s.replace(c, r): every c replaced by the character r
ReplaceAll(s, c, r) == [i \in DOMAIN s |-> IF s[i] = c THEN r ELSE s[i]]

\* s.replace(c, r, 1): count = 1 replaces the FIRST c only
ReplaceFirst(s, c, r) ==
    IF Contains(s, c)
    THEN LET k == CHOOSE i \in DOMAIN s : s[i] = c /\ \A j \in DOMAIN s : s[j] = c => i <= j
         IN  [s EXCEPT ![k] = r]
    ELSE s

\* every character a digit, and at least one
AllDigits(s) == s # <<>> /\ \A i \in DOMAIN s : IsDigit(s[i])

\* s.split(c)
RECURSIVE Split(_, _)
Split(s, c) ==
    IF ~Contains(s, c) THEN <<s>>
    ELSE LET k == CHOOSE i \in DOMAIN s : s[i] = c /\ \A j \in DOMAIN s : s[j] = c => i <= j
         IN  <<SubSeq(s, 1, k - 1)>> \o Split(SubSeq(s, k + 1, Len(s)), c)

\* ''.join(parts)
RECURSIVE Join(_)
Join(parts) == IF parts = <<>> THEN <<>> ELSE Head(parts) \o Join(Tail(parts))

(***************************************************************************)
(* decimal.Decimal under the default context                               *)
(***************************************************************************)
\* getcontext().prec: every arithmetic result is rounded to this many digits
Prec == 28

RECURSIVE StripLeadingZeros(_)
StripLeadingZeros(ds) ==
    IF ds # <<>> /\ Head(ds) = 0 THEN StripLeadingZeros(Tail(ds)) ELSE ds

RECURSIVE StripTrailingZeros(_)
StripTrailingZeros(d) ==
    IF d.digs # <<>> /\ d.digs[Len(d.digs)] = 0
    THEN StripTrailingZeros([d EXCEPT !.digs = SubSeq(d.digs, 1, Len(d.digs) - 1),
                                      !.exp = d.exp + 1])
    ELSE d

Zero == [neg |-> FALSE, digs |-> <<>>, exp |-> 0]

\* The canonical form of a value: Decimal.__eq__ compares numerically, so
\* 1.50 = 1.5 and -0 = 0.  Results are kept in this form.
Norm(d) ==
    LET t == StripTrailingZeros([d EXCEPT !.digs = StripLeadingZeros(d.digs)])
    IN  IF t.digs = <<>> THEN Zero ELSE t

\* ds + 1 on a digit sequence
RECURSIVE Increment(_)
Increment(ds) ==
    IF ds = <<>> THEN <<1>>
    ELSE IF ds[Len(ds)] < 9 THEN [ds EXCEPT ![Len(ds)] = ds[Len(ds)] + 1]
    ELSE Increment(SubSeq(ds, 1, Len(ds) - 1)) \o <<0>>

\* Decimal._fix: round the coefficient to Prec digits, ROUND_HALF_EVEN
Fix(d) ==
    LET n == Len(d.digs) IN
    IF n <= Prec THEN d
    ELSE LET kept == SubSeq(d.digs, 1, Prec)
             rest == SubSeq(d.digs, Prec + 1, n)
             restZero == \A i \in 2..Len(rest) : rest[i] = 0
             up == \/ rest[1] > 5
                   \/ rest[1] = 5 /\ ~restZero
                   \/ rest[1] = 5 /\ restZero /\ kept[Prec] % 2 = 1
             r == IF up THEN Increment(kept) ELSE kept
         IN  IF Len(r) > Prec
             THEN [d EXCEPT !.digs = SubSeq(r, 1, Prec), !.exp = d.exp + (n - Prec) + 1]
             ELSE [d EXCEPT !.digs = r, !.exp = d.exp + (n - Prec)]

\* getcontext().Emax: a result whose adjusted exponent is larger raises
\* decimal.Overflow, a signal the default context traps
Emax == 999999

\* _fix's overflow test, on the rounded result: reached only by a number of
\* about a million digits.  (Nor is any input here small enough to reach the
\* other end of the exponent range.)
Overflows(d) == d.digs # <<>> /\ d.exp + Len(d.digs) - 1 > Emax

\* the digits and '.' of a numeric literal: at most one '.', at least one digit
IsNumeral(s) ==
    /\ \A i \in DOMAIN s : IsDigit(s[i]) \/ s[i] = "."
    /\ Count(s, ".") <= 1
    /\ \E i \in DOMAIN s : IsDigit(s[i])

\* Decimal(s) accepts [sign] numeral after stripping the surrounding spaces.
\* (Its other spellings, exponents, Infinity and NaN, need letters that the
\* amount inputs here do not contain.)
IsDecimalLiteral(s) ==
    LET t == Strip(s)
        u == IF t # <<>> /\ t[1] \in {"+", "-"} THEN Tail(t) ELSE t
    IN  IsNumeral(u)

\* Decimal(s) for a literal s: exact, no rounding
DecimalOf(s) ==
    LET t == Strip(s)
        u == IF t[1] \in {"+", "-"} THEN Tail(t) ELSE t
        IsD(c) == IsDigit(c)
        ds == SelectSeq(u, IsD)
        dot == RFind(u, ".")
        frac == IF dot = -1 THEN 0 ELSE Len(u) - (dot + 1)
    IN  [neg |-> t[1] = "-",
         digs |-> StripLeadingZeros([i \in DOMAIN ds |-> DigitVal(ds[i])]),
         exp |-> 0 - frac]

RECURSIVE Zeros(_)
Zeros(k) == IF k = 0 THEN <<>> ELSE <<0>> \o Zeros(k - 1)

\* d * 10^k, as Decimal.__mul__ by the integer 10^k: the coefficient gets k
\* zeros, then the product is rounded to the context precision
TimesPow10(d, k) ==
    Fix([d EXCEPT !.digs = IF d.digs = <<>> THEN <<>> ELSE d.digs \o Zeros(k)])

\* sign * d for sign in {1, -1}: a multiplication as well, so it rounds too
TimesSign(sign, d) ==
    Fix([d EXCEPT !.neg = IF sign = -1 THEN ~d.neg ELSE d.neg])

(***************************************************************************)
(* FormatParser.parse_amount                                               *)
(***************************************************************************)
Value(d) == [kind |-> "value", val |-> Norm(d)]

\* ValueError("Cannot parse NaN into amount") is the spec's NullValue,
\* ValueError("Invalid amount: ...") its InvalidAmount
Error(name) == [kind |-> "error", error |-> name]

Pending == [kind |-> "pending"]

\* lines 25-37: the three negative surface forms; the first that applies is
\* stripped, and only that one
SignForm(s) ==
    IF StartsWith(s, "(") /\ EndsWith(s, ")")
    THEN [sign |-> -1, s |-> Strip(SubSeq(s, 2, Len(s) - 1))]
    ELSE IF EndsWith(s, "-")
    THEN [sign |-> -1, s |-> Strip(SubSeq(s, 1, Len(s) - 1))]
    ELSE IF StartsWith(s, "-")
    THEN [sign |-> -1, s |-> Strip(Tail(s))]
    ELSE [sign |-> 1, s |-> s]

\* \d+(?:\.\d+)?
IsPlainNumber(s) ==
    LET parts == Split(s, ".")
    IN  Len(parts) <= 2 /\ \A i \in DOMAIN parts : AllDigits(parts[i])

\* group 1 of ([+-]?\d+(?:\.\d+)?)\s*([KkMmBb]) against the whole of s
SuffixNumber(s) == RStrip(SubSeq(s, 1, Len(s) - 1))

\* re.fullmatch(r"([+-]?\d+(?:\.\d+)?)\s*([KkMmBb])", s)
SuffixMatch(s) ==
    /\ Len(s) >= 2
    /\ s[Len(s)] \in SuffixLetter
    /\ LET g == SuffixNumber(s)
           u == IF g # <<>> /\ g[1] \in {"+", "-"} THEN Tail(g) ELSE g
       IN  IsPlainNumber(u)

\* suffix_map, as powers of ten
SuffixPower(c) ==
    CASE Upper(c) = "K" -> 3 [] Upper(c) = "M" -> 6 [] Upper(c) = "B" -> 9

\* line 43: Decimal(m.group(1)) * suffix_map[m.group(2).upper()]; the sign
\* of line 26 is not used
SuffixValue(sign, s) ==
    LET p == TimesPow10(DecimalOf(SuffixNumber(s)), SuffixPower(s[Len(s)]))
    IN  IF Overflows(p) THEN Error("Overflow") ELSE Value(p)

\* line 46: re.sub(r"[^\d.,-]", "", s)
CleanAmount(s) ==
    LET Keep(c) == IsDigit(c) \/ c \in {".", ",", "-"} IN SelectSeq(s, Keep)

\* re.search(r",\d{1,2}$", s)
CommaDecimalTail(s) ==
    LET n == Len(s) IN
    \/ n >= 2 /\ s[n - 1] = "," /\ IsDigit(s[n])
    \/ n >= 3 /\ s[n - 2] = "," /\ IsDigit(s[n - 1]) /\ IsDigit(s[n])

\* BothSeparators with the comparison of line 54 reversed
BothSeparators_Reversed(s) ==
    IF RFind(s, ".") < RFind(s, ",")
    THEN Remove(s, ",")
    ELSE ReplaceAll(Remove(s, "."), ",", ".")

\* lines 49-59: both separators present
BothSeparators(s) ==
    IF RFind(s, ".") > RFind(s, ",")
    THEN Remove(s, ",")
    ELSE ReplaceAll(Remove(s, "."), ",", ".")

\* lines 60-64: only commas present
OnlyCommas(s) ==
    Remove(IF CommaDecimalTail(s) THEN ReplaceFirst(s, ",", ".") ELSE s, ",")

\* lines 48-64
Regional(s) ==
    IF Contains(s, ".") /\ Contains(s, ",") THEN BothSeparators(s)
    ELSE IF Contains(s, ",") THEN OnlyCommas(s)
    ELSE s

\* MultiDot keeping the first '.' instead of the last
MultiDot_First(s) ==
    IF Count(s, ".") > 1
    THEN LET parts == Split(s, ".")
         IN  parts[1] \o <<".">> \o Join(Tail(parts))
    ELSE s

\* lines 66-69: every '.' but the last removed
MultiDot(s) ==
    IF Count(s, ".") > 1
    THEN LET parts == Split(s, ".")
         IN  parts[1] \o Join(SubSeq(parts, 2, Len(parts) - 1)) \o <<".">>
                \o parts[Len(parts)]
    ELSE s

\* the string handed to Decimal() at line 73
Canonical(s) == MultiDot(Regional(CleanAmount(s)))

\* FinalConversion without the except clause of line 74: InvalidOperation
\* leaves parse_amount as it is
FinalConversion_Uncaught(sign, s) ==
    IF ~IsDecimalLiteral(s) THEN Error("InvalidOperation")
    ELSE IF Overflows(TimesSign(sign, DecimalOf(s))) THEN Error("Overflow")
    ELSE Value(TimesSign(sign, DecimalOf(s)))

\* lines 71-75
FinalConversion(sign, s) ==
    IF ~IsDecimalLiteral(s) THEN Error("InvalidAmount")
    ELSE IF Overflows(TimesSign(sign, DecimalOf(s))) THEN Error("Overflow")
    ELSE Value(TimesSign(sign, DecimalOf(s)))

parse_amount(value) ==
    IF value = Null THEN Error("NullValue")
    ELSE LET f == SignForm(Strip(value))
         IN  IF SuffixMatch(f.s) THEN SuffixValue(f.sign, f.s)
             ELSE FinalConversion(f.sign, Canonical(f.s))

(***************************************************************************)
(* FormatParser.parse_amount_vectorized, element by element: every step    *)
(* of lines 88-150 is elementwise, so the column result is the sequence of *)
(* the element results, unless some element makes process_suffix raise.    *)
(***************************************************************************)
\* line 88: series.astype(str) turns a missing cell into the text 'None'
AsStr(v) == IF v = Null THEN <<"N", "o", "n", "e">> ELSE v

\* lines 91-96: (startswith('(') & endswith(')')) | endswith('-') | startswith('-')
VecSign(s) ==
    IF \/ StartsWith(s, "(") /\ EndsWith(s, ")")
       \/ EndsWith(s, "-")
       \/ StartsWith(s, "-")
    THEN -1 ELSE 1

\* lines 99-100: [€$₹£¥,] and \s+ removed
VecStripFormatting(s) ==
    LET Keep(c) == c \notin Currency /\ c # "," /\ ~IsSpace(c) IN SelectSeq(s, Keep)

\* line 101: every match of \(([^)]+)\) replaced by its group, left to right
RECURSIVE VecUnwrapParens(_)
VecUnwrapParens(s) ==
    IF s = <<>> THEN <<>>
    ELSE IF s[1] = "(" /\ Contains(Tail(s), ")")
    THEN LET j == CHOOSE i \in 2..Len(s) :
                     s[i] = ")" /\ \A k \in 2..Len(s) : s[k] = ")" => i <= k
         IN  IF j >= 3
             THEN SubSeq(s, 2, j - 1) \o VecUnwrapParens(SubSeq(s, j + 1, Len(s)))
             ELSE <<s[1]>> \o VecUnwrapParens(Tail(s))
    ELSE <<s[1]>> \o VecUnwrapParens(Tail(s))

\* line 102: (\d)-$ replaced by \1
VecDropTrailingMinus(s) ==
    IF Len(s) >= 2 /\ s[Len(s)] = "-" /\ IsDigit(s[Len(s) - 1])
    THEN SubSeq(s, 1, Len(s) - 1) ELSE s

\* line 103: ^- removed
VecDropLeadingMinus(s) == IF StartsWith(s, "-") THEN Tail(s) ELSE s

\* lines 99-103
VecClean(s) ==
    VecDropLeadingMinus(VecDropTrailingMinus(VecUnwrapParens(VecStripFormatting(s))))

\* line 107: cleaned.str.contains(r"[KMB]$", case=False)
VecSuffixMask(s) == s # <<>> /\ s[Len(s)] \in SuffixLetter

IsNumChar(c) == IsDigit(c) \/ c = "."

\* the ends of the runs of [\d.] that a K, M or B follows
VecRunEnds(s) ==
    {e \in 1..(Len(s) - 1) : IsNumChar(s[e]) /\ s[e + 1] \in SuffixLetter}

\* line 108: str.extract(r"([\d.]+)([KMB])", flags=re.I): the first match
\* anywhere in s, or no match (a row of NaN)
VecExtract(s) ==
    IF VecRunEnds(s) = {} THEN [found |-> FALSE]
    ELSE LET e == CHOOSE x \in VecRunEnds(s) : \A y \in VecRunEnds(s) : x <= y
             a == CHOOSE x \in 1..e :
                     /\ \A k \in x..e : IsNumChar(s[k])
                     /\ \A y \in 1..e : (\A k \in y..e : IsNumChar(s[k])) => x <= y
         IN  [found |-> TRUE, num |-> SubSeq(s, a, e), suffix |-> s[e + 1]]

Nothing == [kind |-> "null"]

\* lines 111-117: process_suffix.  On a row of NaN, Decimal(nan) succeeds
\* and nan.upper() raises AttributeError, which the except clause
\* (TypeError, InvalidOperation) does not catch.
process_suffix(row) ==
    IF ~row.found THEN Error("AttributeError")
    ELSE IF ~IsDecimalLiteral(row.num) THEN Nothing
    ELSE [kind |-> "number",
          val |-> TimesPow10(DecimalOf(row.num), SuffixPower(row.suffix))]

\* lines 120-131: process_standard
process_standard(val) ==
    LET v == IF Count(val, ".") > 1 /\ Contains(val, ",")
             THEN MultiDot(val)
             ELSE IF Contains(val, ",") /\ ~Contains(val, ".")
                       /\ CommaDecimalTail(val)
             THEN ReplaceFirst(val, ",", ".")
             ELSE val
        w == Remove(v, ",")
    IN  IF IsDecimalLiteral(w) THEN [kind |-> "number", val |-> DecimalOf(w)]
        ELSE Nothing

\* lines 136-144 for one element
VecElement(s) ==
    IF VecSuffixMask(s) THEN process_suffix(VecExtract(s)) ELSE process_standard(s)

\* lines 147-150 for one element: result * sign, nulls preserved
VecSigned(x, sign) ==
    IF x.kind = "number" THEN Value(TimesSign(sign, x.val)) ELSE x

\* one element through the whole of parse_amount_vectorized
VecCell(v) ==
    LET s == Strip(AsStr(v))
    IN  VecSigned(VecElement(VecClean(s)), VecSign(s))

parse_amount_vectorized(series) ==
    LET cells == [i \in DOMAIN series |-> VecCell(series[i])]
    IN  IF \E i \in DOMAIN cells : cells[i].kind = "error"
        THEN Error("AttributeError")
        ELSE [kind |-> "series", cells |-> cells]

(***************************************************************************)
(* Calendar dates (datetime.date): a record [y, m, d]                      *)
(***************************************************************************)
IsLeap(y) == y % 4 = 0 /\ (y % 100 # 0 \/ y % 400 = 0)

DaysInMonth(y, m) ==
    IF m = 2 THEN (IF IsLeap(y) THEN 29 ELSE 28)
    ELSE IF m \in {4, 6, 9, 11} THEN 30 ELSE 31

\* datetime(y, m, d) succeeds: MINYEAR <= y <= MAXYEAR and the day exists
IsValidDate(y, m, d) ==
    /\ y >= 1 /\ y <= 9999
    /\ m >= 1 /\ m <= 12
    /\ d >= 1 /\ d <= DaysInMonth(y, m)

RECURSIVE DaysBeforeMonth(_, _)
DaysBeforeMonth(y, m) ==
    IF m = 1 THEN 0 ELSE DaysBeforeMonth(y, m - 1) + DaysInMonth(y, m - 1)

DaysBeforeYear(y) ==
    LET p == y - 1 IN p * 365 + (p \div 4) - (p \div 100) + (p \div 400)

\* date.toordinal(): 0001-01-01 is day 1
ToOrdinal(dt) == DaysBeforeYear(dt.y) + DaysBeforeMonth(dt.y, dt.m) + dt.d

\* date.fromordinal(n), as datetime._ord2ymd computes it
FromOrdinal(n) ==
    LET n0 == n - 1
        n400 == n0 \div 146097
        r400 == n0 % 146097
        n100 == r400 \div 36524
        r100 == r400 % 36524
        n4 == r100 \div 1461
        r4 == r100 % 1461
        n1 == r4 \div 365
        r1 == r4 % 365
        year == n400 * 400 + 1 + n100 * 100 + n4 * 4 + n1
    IN  IF n1 = 4 \/ n100 = 4 THEN [y |-> year - 1, m |-> 12, d |-> 31]
        ELSE LET month == CHOOSE m \in 1..12 :
                            /\ DaysBeforeMonth(year, m) <= r1
                            /\ r1 < DaysBeforeMonth(year, m) + DaysInMonth(year, m)
             IN  [y |-> year, m |-> month, d |-> r1 - DaysBeforeMonth(year, month) + 1]

\* datetime(1899, 12, 30).toordinal(), the epoch of line 163
EpochOrdinal == 693594

\* date.max.toordinal(): 9999-12-31
MaxOrdinal == 3652059

DateValue(dt) == [kind |-> "date", date |-> dt]

(***************************************************************************)
(* FormatParser.parse_date                                                 *)
(***************************************************************************)
UpperLetters ==
    <<"A", "B", "C", "D", "E", "F", "G", "H", "I", "J", "K", "L", "M",
      "N", "O", "P", "Q", "R", "S", "T", "U", "V", "W", "X", "Y", "Z">>

LowerLetters ==
    <<"a", "b", "c", "d", "e", "f", "g", "h", "i", "j", "k", "l", "m",
      "n", "o", "p", "q", "r", "s", "t", "u", "v", "w", "x", "y", "z">>

\* c.lower(), for re.I and for strptime's case-insensitive names
Lower(c) ==
    IF \E i \in DOMAIN UpperLetters : UpperLetters[i] = c
    THEN LowerLetters[CHOOSE i \in DOMAIN UpperLetters : UpperLetters[i] = c]
    ELSE c

LowerStr(s) == [i \in DOMAIN s |-> Lower(s[i])]

IsLetter(c) ==
    \E i \in DOMAIN UpperLetters : UpperLetters[i] = c \/ LowerLetters[i] = c

\* int(s) for a string of digits
RECURSIVE IntOf(_)
IntOf(s) ==
    IF s = <<>> THEN 0 ELSE IntOf(SubSeq(s, 1, Len(s) - 1)) * 10 + DigitVal(s[Len(s)])

RECURSIVE StripZeroChars(_)
StripZeroChars(s) ==
    IF s # <<>> /\ Head(s) = "0" THEN StripZeroChars(Tail(s)) ELSE s

\* lines 161-164: float(s) days after the epoch, truncated to the date.  A
\* sum past date.max, or a day count past timedelta's range, raises
\* OverflowError.  (The fraction only adds a time of day: the inputs have at
\* most two fraction digits, far from the microsecond rounding that could
\* reach the next day.)
ExcelSerial(s) ==
    LET whole == StripZeroChars(Head(Split(s, ".")))
    IN  IF Len(whole) > 7 \/ EpochOrdinal + IntOf(whole) > MaxOrdinal
        THEN Error("OverflowError")
        ELSE DateValue(FromOrdinal(EpochOrdinal + IntOf(whole)))

\* QuarterMonth with the month a quarter ends with
QuarterMonth_Last(q) == CASE q = 1 -> 3 [] q = 2 -> 6 [] q = 3 -> 9 [] q = 4 -> 12

\* the month a quarter starts with: {1: 1, 2: 4, 3: 7, 4: 10}[q]
QuarterMonth(q) == CASE q = 1 -> 1 [] q = 2 -> 4 [] q = 3 -> 7 [] q = 4 -> 10

\* [- ]* of line 167
IsQSep(c) == c \in {"-", " "}

RECURSIVE SkipQSep(_)
SkipQSep(s) == IF s # <<>> /\ IsQSep(Head(s)) THEN SkipQSep(Tail(s)) ELSE s

\* re.fullmatch(r"Q(\d)[- ]*(\d{2,4})", s, flags=re.I)
ShortQuarterMatch(s) ==
    /\ Len(s) >= 4
    /\ Lower(s[1]) = "q"
    /\ IsDigit(s[2])
    /\ LET yr == SkipQSep(SubSeq(s, 3, Len(s)))
       IN  AllDigits(yr) /\ Len(yr) >= 2 /\ Len(yr) <= 4

\* ShortQuarter with a two-digit year put in the 1900s
ShortQuarter_LastCentury(s) ==
    LET q == DigitVal(s[2])
        n == IntOf(SkipQSep(SubSeq(s, 3, Len(s))))
        yr == IF n < 100 THEN n + 1900 ELSE n
    IN  IF q \notin 1..4 THEN Error("KeyError")
        ELSE DateValue([y |-> yr, m |-> QuarterMonth(q), d |-> 1])

\* lines 168-174.  A quarter digit outside 1..4 is a KeyError of the dict.
ShortQuarter(s) ==
    LET q == DigitVal(s[2])
        n == IntOf(SkipQSep(SubSeq(s, 3, Len(s))))
        yr == IF n < 100 THEN n + 2000 ELSE n
    IN  IF q \notin 1..4 THEN Error("KeyError")
        ELSE DateValue([y |-> yr, m |-> QuarterMonth(q), d |-> 1])

QuarterWord == <<"q", "u", "a", "r", "t", "e", "r">>

\* re.fullmatch(r"Quarter\s+(\d)\s+(\d{4})", s, flags=re.I)
LongQuarterMatch(s) ==
    /\ Len(s) >= 14
    /\ LowerStr(SubSeq(s, 1, 7)) = QuarterWord
    /\ IsSpace(s[8])
    /\ LET a == LStrip(SubSeq(s, 8, Len(s)))
       IN  /\ Len(a) >= 6
           /\ IsDigit(a[1])
           /\ IsSpace(a[2])
           /\ LET b == LStrip(Tail(a)) IN AllDigits(b) /\ Len(b) = 4

\* lines 177-180.  datetime(0, month, 1) is a ValueError of its own
\* ("year 0 is out of range"), raised outside any try.
LongQuarter(s) ==
    LET a == LStrip(SubSeq(s, 8, Len(s)))
        q == DigitVal(a[1])
        yr == IntOf(LStrip(Tail(a)))
    IN  IF q \notin 1..4 THEN Error("KeyError")
        ELSE IF yr < 1 THEN Error("ValueError")
        ELSE DateValue([y |-> yr, m |-> QuarterMonth(q), d |-> 1])

(***************************************************************************)
(* datetime.strptime for the nine formats of lines 183-193.  In each of    *)
(* them a literal separator or the end of the string delimits every        *)
(* field, so a field is the text between the separators.                   *)
(***************************************************************************)
MonthAbbr ==
    << <<"j", "a", "n">>, <<"f", "e", "b">>, <<"m", "a", "r">>, <<"a", "p", "r">>,
       <<"m", "a", "y">>, <<"j", "u", "n">>, <<"j", "u", "l">>, <<"a", "u", "g">>,
       <<"s", "e", "p">>, <<"o", "c", "t">>, <<"n", "o", "v">>, <<"d", "e", "c">> >>

MonthFull ==
    << <<"j", "a", "n", "u", "a", "r", "y">>, <<"f", "e", "b", "r", "u", "a", "r", "y">>,
       <<"m", "a", "r", "c", "h">>, <<"a", "p", "r", "i", "l">>, <<"m", "a", "y">>,
       <<"j", "u", "n", "e">>, <<"j", "u", "l", "y">>, <<"a", "u", "g", "u", "s", "t">>,
       <<"s", "e", "p", "t", "e", "m", "b", "e", "r">>, <<"o", "c", "t", "o", "b", "e", "r">>,
       <<"n", "o", "v", "e", "m", "b", "e", "r">>, <<"d", "e", "c", "e", "m", "b", "e", "r">> >>

\* the month a name stands for (%b with MonthAbbr, %B with MonthFull), 0 for none
MonthNamed(names, w) ==
    IF \E i \in DOMAIN names : names[i] = LowerStr(w)
    THEN CHOOSE i \in DOMAIN names : names[i] = LowerStr(w)
    ELSE 0

\* %d: 3[0-1]|[1-2]\d|0[1-9]|[1-9]| [1-9]; 0 when the field is none of them
DayField(f) ==
    IF Len(f) = 1 /\ IsDigit(f[1]) /\ f[1] # "0" THEN DigitVal(f[1])
    ELSE IF Len(f) = 2 /\ f[1] = " " /\ IsDigit(f[2]) /\ f[2] # "0" THEN DigitVal(f[2])
    ELSE IF AllDigits(f) /\ Len(f) = 2 /\ IntOf(f) >= 1 /\ IntOf(f) <= 31 THEN IntOf(f)
    ELSE 0

\* %m: 1[0-2]|0[1-9]|[1-9]
MonthField(f) ==
    IF AllDigits(f) /\ Len(f) <= 2 /\ IntOf(f) >= 1 /\ IntOf(f) <= 12 THEN IntOf(f)
    ELSE 0

\* %Y: \d\d\d\d; -1 when the field is not four digits
YearField(f) == IF AllDigits(f) /\ Len(f) = 4 THEN IntOf(f) ELSE -1

\* %y: \d\d, 00..68 in 2000, 69..99 in 1900
ShortYearField(f) ==
    IF AllDigits(f) /\ Len(f) = 2
    THEN (IF IntOf(f) <= 68 THEN 2000 + IntOf(f) ELSE 1900 + IntOf(f))
    ELSE -1

NoMatch == [ok |-> FALSE]

\* the date of the fields, or the ValueError of the datetime constructor
Built(y, m, d) ==
    IF IsValidDate(y, m, d) THEN [ok |-> TRUE, date |-> [y |-> y, m |-> m, d |-> d]]
    ELSE NoMatch

\* "%d/%m/%Y"
StrptimeDMY(s) ==
    LET p == Split(s, "/")
    IN  IF Len(p) = 3 THEN Built(YearField(p[3]), MonthField(p[2]), DayField(p[1]))
        ELSE NoMatch

\* "%m/%d/%Y"
StrptimeMDY(s) ==
    LET p == Split(s, "/")
    IN  IF Len(p) = 3 THEN Built(YearField(p[3]), MonthField(p[1]), DayField(p[2]))
        ELSE NoMatch

\* "%Y-%m-%d"
StrptimeISO(s) ==
    LET p == Split(s, "-")
    IN  IF Len(p) = 3 THEN Built(YearField(p[1]), MonthField(p[2]), DayField(p[3]))
        ELSE NoMatch

\* "%d-%b-%Y", "%d-%B-%Y" (names) and "%d-%b-%y", "%d-%B-%y" (short = TRUE)
StrptimeDayNameYear(s, names, short) ==
    LET p == Split(s, "-")
    IN  IF Len(p) = 3
        THEN Built(IF short THEN ShortYearField(p[3]) ELSE YearField(p[3]),
                   MonthNamed(names, p[2]), DayField(p[1]))
        ELSE NoMatch

\* "%b %Y", "%B %Y": the blank of the format is \s+
StrptimeNameYear(s, names) ==
    IF Len(s) < 5 THEN NoMatch
    ELSE LET head == SubSeq(s, 1, Len(s) - 4)
         IN  IF IsSpace(head[Len(head)])
             THEN Built(YearField(SubSeq(s, Len(s) - 3, Len(s))),
                        MonthNamed(names, RStrip(head)), 1)
             ELSE NoMatch

\* lines 183-193, in the order of the list
LiteralFormats(s) ==
    << StrptimeDMY(s), StrptimeMDY(s), StrptimeISO(s),
       StrptimeDayNameYear(s, MonthAbbr, FALSE), StrptimeDayNameYear(s, MonthFull, FALSE),
       StrptimeNameYear(s, MonthAbbr), StrptimeNameYear(s, MonthFull),
       StrptimeDayNameYear(s, MonthAbbr, TRUE), StrptimeDayNameYear(s, MonthFull, TRUE) >>

\* the LAST format of the list that parses the whole string
FirstFormat_Last(s) ==
    LET r == LiteralFormats(s)
    IN  IF \E i \in DOMAIN r : r[i].ok
        THEN r[CHOOSE i \in DOMAIN r : r[i].ok /\ \A j \in DOMAIN r : r[j].ok => i >= j]
        ELSE NoMatch

\* lines 194-197: the first format that parses the whole string
FirstFormat(s) ==
    LET r == LiteralFormats(s)
    IN  IF \E i \in DOMAIN r : r[i].ok
        THEN r[CHOOSE i \in DOMAIN r : r[i].ok /\ \A j \in DOMAIN r : r[j].ok => i <= j]
        ELSE NoMatch

\* the maximal runs of letters of s
Words(s) ==
    {SubSeq(s, a, b) : <<a, b>> \in
        {<<i, j>> \in (DOMAIN s) \X (DOMAIN s) :
            /\ i <= j
            /\ \A k \in i..j : IsLetter(s[k])
            /\ (i = 1 \/ ~IsLetter(s[i - 1]))
            /\ (j = Len(s) \/ ~IsLetter(s[j + 1]))}}

IsMonthName(w) == MonthNamed(MonthAbbr, w) # 0 \/ MonthNamed(MonthFull, w) # 0

\* lines 199-203: pd.to_datetime(s, errors="raise").date().  The generic
\* parser is a library outside the repository.  It rejects the empty string
\* (NaT has no date) and a string with a word it does not know; of the words
\* it knows, the inputs here contain month names only.  Of any other string
\* it makes a date of its own, written [generic |-> s], or rejects it.
GenericParse(s) ==
    IF s = <<>> \/ \E w \in Words(s) : ~IsMonthName(w)
    THEN {Error("InvalidDate")}
    ELSE {Error("InvalidDate"), DateValue([generic |-> s])}

\* every outcome parse_date(value) can have (one, but for the generic parser)
parse_date(value) ==
    IF value = Null THEN {Error("NullValue")}
    ELSE LET s == Strip(value)
         IN  IF IsPlainNumber(s) THEN {ExcelSerial(s)}
             ELSE IF ShortQuarterMatch(s) THEN {ShortQuarter(s)}
             ELSE IF LongQuarterMatch(s) THEN {LongQuarter(s)}
             ELSE IF FirstFormat(s).ok THEN {DateValue(FirstFormat(s).date)}
             ELSE GenericParse(s)

(***************************************************************************)
(* Inputs                                                                  *)
(***************************************************************************)
\* the longest separator-and-digit body of a generated amount
MaxBody == 4

\* the most digits of a long number, and of the integer part of a round trip
MaxDigits == 29

\* the longest generated column
MaxCol == 2

\* the most digits of a generated Excel serial
MaxSerialDigits == 7

StringsUpTo(A, n) == UNION {[1..k -> A] : k \in 0..n}

RECURSIVE Repeat(_, _)
Repeat(c, n) == IF n = 0 THEN <<>> ELSE <<c>> \o Repeat(c, n - 1)

\* amounts as the ledgers and the documentation write them
AmountExamples ==
    { <<"$", "1", ",", "2", "3", "4", ".", "5", "6">>,
      <<"EUR", "1", ".", "2", "3", "4", ",", "5", "6">>,
      <<"INR", "1", ",", "2", "3", ",", "4", "5", "6", ".", "7", "8">>,
      <<"(", "1", ",", "2", "3", "4", ".", "5", "6", ")">>,
      <<"1", "2", "3", "4", ".", "5", "6", "-">>,
      <<"-", "1", ",", "2", "3", "4", ".", "5", "6">>,
      <<"1", ".", "2", "K">>,
      <<"2", ".", "5", "M">>,
      <<"3", "b">>,
      <<"1", "2", " ", "k">>,
      <<"-", "1", ".", "2", "K">>,
      <<"(", "2", ".", "5", "M", ")">>,
      <<"2", ".", "5", "M", "-">>,
      <<"B", "o", "b">>,
      <<"K">>,
      <<"1", "K", "2", "K">>,
      <<"1", ",", "5">>,
      <<"1", ".", "2", "3", "4", ",", "5", "6">>,
      <<"1", ",", "2", "3", "4", ",", "5", "6">>,
      <<"1", ",", "2", "3", "4", ",", "5", "6", "7">>,
      <<"1", ".", "2", "3", "4", ".", "5", "6", "7">>,
      <<"-", "5", "-">>,
      <<"(", "-", "5", ")">>,
      <<" ", "$", " ", "7", "5", " ">>,
      <<"1", "2", "x">>,
      <<"x">>,
      <<>> }

\* every short amount: a prefix, a body of digits and separators, a suffix
AmountPrefixes == {<<>>, <<"-">>, <<"(">>, <<"$">>}

AmountSuffixes == {<<>>, <<"-">>, <<")">>, <<"K">>, <<"b">>}

AmountBodies == StringsUpTo({"0", "7", ".", ","}, MaxBody)

GeneratedAmounts ==
    {p \o b \o s : <<p, b, s>> \in AmountPrefixes \X AmountBodies \X AmountSuffixes}

\* numbers of up to MaxDigits digits, plain, with a fraction, with a suffix
LongNumbers ==
    {Repeat(lead, 1) \o Repeat(fill, n - 1) \o tail :
        <<lead, fill, n, tail>> \in
            {"1", "9"} \X {"0", "5", "9"} \X (1..MaxDigits)
                \X {<<>>, <<".", "5">>, <<"K">>, <<".", "5", "M">>}}

AmountInputs == AmountExamples \cup GeneratedAmounts \cup LongNumbers \cup {Null}

\* a decimal written sign + digits + '.' + digits
NoDecimal == [none |-> TRUE]

RoundTripDecimals ==
    {[neg |-> ng, int |-> Repeat(lead, 1) \o Repeat(fill, n - 1), frac |-> fr] :
        <<ng, lead, fill, n, fr>> \in
            BOOLEAN \X {"0", "1", "9"} \X {"0", "5", "9"} \X (1..MaxDigits)
                \X (StringsUpTo({"0", "5"}, 2) \ {<<>>})}

\* the integer digits with a comma before every group of three
RECURSIVE Grouped(_)
Grouped(ds) ==
    IF Len(ds) <= 3 THEN ds
    ELSE Grouped(SubSeq(ds, 1, Len(ds) - 3)) \o <<",">> \o SubSeq(ds, Len(ds) - 2, Len(ds))

\* US-style formatting of d: leading '-', comma grouping, '.' decimal point
FormatUS(d) ==
    (IF d.neg THEN <<"-">> ELSE <<>>) \o Grouped(d.int) \o <<".">> \o d.frac

\* the exact value of d
ExactValue(d) ==
    LET ds == d.int \o d.frac
    IN  Norm([neg |-> d.neg, digs |-> [i \in DOMAIN ds |-> DigitVal(ds[i])],
              exp |-> 0 - Len(d.frac)])

\* cells of the generated columns
ColumnCells ==
    { Null,
      <<"7">>,
      <<"1", ",", "5">>,
      <<"1", ".", "2", "K">>,
      <<"-", "7", ".", "5">>,
      <<"(", "7", ")">>,
      <<"B", "o", "b">>,
      <<"K">>,
      <<"x">>,
      <<"$", "1", ",", "2", "3", "4", ".", "5", "6">>,
      <<"1", ".", "2", "3", "4", ",", "5", "6">> }

Columns ==
    StringsUpTo(ColumnCells, MaxCol) \cup {<<v>> : v \in AmountInputs}

\* Excel serials: digit strings, plain and with a fraction
SerialTails == {<<>>, <<".", "5">>}

SerialInputs ==
    {w \o f : <<w, f>> \in
        (StringsUpTo({"0", "3", "9"}, MaxSerialDigits) \ {<<>>}) \X SerialTails}
    \cup { <<"4", "4", "9", "2", "7">>,
           <<"4", "4", "9", "2", "7", ".", "9", "9">>,
           <<" ", "4", "4", "9", "2", "7", " ">>,
           <<"6", "0">>,
           <<"2", "9", "5", "8", "4", "6", "5">>,
           <<"2", "9", "5", "8", "4", "6", "5", ".", "9", "9">>,
           <<"2", "9", "5", "8", "4", "6", "6">>,
           <<"4", "4", "9", "2", "7", ".">>,
           <<".", "5">> }

\* the year of a token, as written
YearTexts ==
    { <<"5">>, <<"0", "0">>, <<"0", "5">>, <<"2", "4">>, <<"9", "9">>,
      <<"1", "2", "3">>,
      <<"0", "0", "0", "0">>, <<"0", "0", "2", "4">>, <<"1", "0", "0", "0">>,
      <<"1", "9", "9", "9">>, <<"2", "0", "0", "0">>, <<"2", "0", "2", "3">>,
      <<"2", "0", "2", "4">>, <<"2", "0", "9", "9">>, <<"9", "9", "9", "9">>,
      <<"2", "0", "2", "4", "5">> }

QuarterDigits == {"0", "1", "2", "3", "4", "5"}

\* what stands between the quarter and the year of a short token
QuarterSeparators == {<<>>, <<"-">>, <<" ">>, <<"/">>, <<"-", " ">>, <<"-", "-">>}

ShortQuarterInputs ==
    {<<qc, qd>> \o sep \o yr : <<qc, qd, sep, yr>> \in
        {"Q", "q"} \X QuarterDigits \X QuarterSeparators \X YearTexts}

QuarterWords ==
    { <<"Q", "u", "a", "r", "t", "e", "r">>, <<"q", "u", "a", "r", "t", "e", "r">>,
      <<"Q", "U", "A", "R", "T", "E", "R">> }

Gaps == {<<>>, <<" ">>, <<" ", " ">>}

LongQuarterInputs ==
    {w \o g1 \o <<qd>> \o g2 \o yr : <<w, g1, qd, g2, yr>> \in
        QuarterWords \X Gaps \X QuarterDigits \X (Gaps \ {<<>>}) \X YearTexts}

MonthTexts ==
    { <<"0", "1">>, <<"1">>, <<"0", "2">>, <<"0", "4">>, <<"0", "7">>, <<"1", "0">>,
      <<"1", "2">>, <<"1", "3">>, <<"0", "0">> }

DayTexts ==
    { <<"0", "1">>, <<"1">>, <<" ", "2">>, <<"1", "2">>, <<"1", "3">>, <<"2", "9">>,
      <<"3", "0">>, <<"3", "1">>, <<"3", "2">>, <<"0", "0">> }

DateYearTexts ==
    { <<"2", "4">>, <<"0", "0", "0", "0">>, <<"0", "0", "2", "4">>,
      <<"1", "0", "0", "0">>, <<"1", "9", "9", "9">>, <<"2", "0", "0", "0">>,
      <<"2", "0", "2", "3">>, <<"2", "0", "2", "4">>, <<"2", "0", "9", "9">>,
      <<"9", "9", "9", "9">> }

\* year-month-day with '-'
ISOInputs ==
    {y \o <<"-">> \o m \o <<"-">> \o d :
        <<y, m, d>> \in DateYearTexts \X MonthTexts \X DayTexts}

\* a/b/year, day first or month first
SlashInputs ==
    {a \o <<"/">> \o b \o <<"/">> \o y :
        <<a, b, y>> \in (DayTexts \cup MonthTexts) \X (DayTexts \cup MonthTexts)
            \X { <<"2", "0", "2", "3">>, <<"2", "0", "2", "4">>, <<"2", "4">> }}

NamedMonthInputs ==
    { <<"1", "-", "J", "a", "n", "-", "2", "0", "2", "4">>,
      <<"0", "1", "-", "j", "a", "n", "u", "a", "r", "y", "-", "2", "0", "2", "4">>,
      <<"3", "1", "-", "F", "e", "b", "-", "2", "0", "2", "4">>,
      <<"1", "-", "M", "a", "y", "-", "2", "0", "2", "4">>,
      <<"J", "a", "n", " ", "2", "0", "2", "4">>,
      <<"O", "c", "t", "o", "b", "e", "r", " ", " ", "2", "0", "2", "4">>,
      <<"1", "-", "J", "a", "n", "-", "2", "4">>,
      <<"1", "-", "J", "a", "n", "-", "6", "9">>,
      <<"1", "-", "A", "p", "r", "i", "l", "-", "6", "8">>,
      <<"J", "a", "n", "2", "0", "2", "4">> }

OtherDateInputs ==
    { <<>>, <<"x">>, <<"Q">>, <<"Q", "1">>, <<"a", "b", "c">>,
      <<" ", "Q", "1", "-", "2", "4", " ">>, <<"Q", "1", "-", "2", "4", "x">> }

DateInputs ==
    SerialInputs \cup ShortQuarterInputs \cup LongQuarterInputs \cup ISOInputs
        \cup SlashInputs \cup NamedMonthInputs \cup OtherDateInputs \cup {Null}

(***************************************************************************)
(* The entry points as actions                                             *)
(***************************************************************************)
\* the detector, the concurrent calls and the storage before any use
OthersIdle ==
    /\ detect_series = <<>> /\ table = <<>> /\ oracle = {} /\ detection = Pending
    /\ filters = "default" /\ threads = <<>>
    /\ df = <<>> /\ dataframes = <<>> /\ amount_range = <<>> /\ queried = Pending
    /\ local = <<>> /\ stored_by = <<>>

otherVars == <<detectorVars, threadVars, storageVars>>

InitAmount ==
    /\ \/ raw \in AmountInputs /\ given = NoDecimal
       \/ given \in RoundTripDecimals /\ raw = FormatUS(given)
    /\ column = <<>>
    /\ amount = Pending /\ batch = Pending /\ date = Pending
    /\ OthersIdle

InitBatch ==
    /\ column \in Columns
    /\ raw = Null /\ given = NoDecimal
    /\ amount = Pending /\ batch = Pending /\ date = Pending
    /\ OthersIdle

InitDate ==
    /\ raw \in DateInputs
    /\ given = NoDecimal /\ column = <<>>
    /\ amount = Pending /\ batch = Pending /\ date = Pending
    /\ OthersIdle

Init == InitAmount \/ InitBatch \/ InitDate

\* FormatParser.parse_amount(raw)
ParseAmount ==
    /\ amount' = parse_amount(raw)
    /\ UNCHANGED <<raw, given, column, batch, date, otherVars>>

\* FormatParser.parse_amount_vectorized(column)
ParseAmountVectorized ==
    /\ batch' = parse_amount_vectorized(column)
    /\ UNCHANGED <<raw, given, column, amount, date, otherVars>>

\* FormatParser.parse_date(raw)
ParseDate ==
    /\ date' \in parse_date(raw)
    /\ UNCHANGED <<raw, given, column, amount, batch, otherVars>>

Next == ParseAmount \/ ParseAmountVectorized \/ ParseDate

Spec == Init /\ [][Next]_vars

SpecAmount == InitAmount /\ [][ParseAmount]_vars

SpecBatch == InitBatch /\ [][ParseAmountVectorized]_vars

SpecDate == InitDate /\ [][ParseDate]_vars

(***************************************************************************)
(* Batch and scalar amount parsing                                         *)
(***************************************************************************)
\* what the batch result holds where the scalar call gives v's value, fails
\* or is given a missing cell
ScalarOrNull(v) ==
    IF parse_amount(v).kind = "value" THEN parse_amount(v) ELSE Nothing

\* C1: for every column and index i, the batch result at i equals the scalar
\* result for column[i] where the scalar call returns a value, and is null
\* where the scalar call fails or column[i] is null.
C1_BatchEqualsScalar ==
    batch.kind = "series" =>
        \A i \in DOMAIN column : batch.cells[i] = ScalarOrNull(column[i])

\* the batch result for a cell that is alone in its column
VecAlone(v) == parse_amount_vectorized(<<v>>)

\* C2: the batch call never fails as a whole: it returns a sequence as long
\* as the column, every element an exact decimal or null, and each element
\* is what it is when parsed in a column of its own.
C2_BatchNeverFails ==
    batch # Pending =>
        /\ batch.kind = "series"
        /\ Len(batch.cells) = Len(column)
        /\ \A i \in DOMAIN column :
              /\ batch.cells[i].kind \in {"value", "null"}
              /\ VecAlone(column[i]) = [kind |-> "series", cells |-> <<batch.cells[i]>>]

(***************************************************************************)
(* Scalar amount parsing                                                   *)
(***************************************************************************)
\* a decimal literal, stated on its own: an optional sign, then digits with
\* at most one '.' among them and at least one digit
PlainLiteral(s) ==
    LET u == IF s # <<>> /\ s[1] \in {"+", "-"} THEN Tail(s) ELSE s
        parts == Split(u, ".")
    IN  /\ Len(parts) <= 2
        /\ \A i \in DOMAIN parts : \A k \in DOMAIN parts[i] : IsDigit(parts[i][k])
        /\ \E i \in DOMAIN parts : parts[i] # <<>>

Converted(sign, s) ==
    IF PlainLiteral(s) THEN Value(TimesSign(sign, DecimalOf(s))) ELSE Error("InvalidAmount")

\* the position of the last '.' or ',' of s
LastSeparator(s) ==
    CHOOSE i \in DOMAIN s :
        s[i] \in {".", ","} /\ \A j \in DOMAIN s : s[j] \in {".", ","} => j <= i

\* s read with its last separator as the decimal point and every other
\* separator as grouping
LastSeparatorDecimal(s) ==
    LET k == LastSeparator(s)
        Keep(c) == c \notin {".", ","}
    IN  SelectSeq(SubSeq(s, 1, k - 1), Keep) \o <<".">> \o SubSeq(s, k + 1, Len(s))

\* 1234.56 and 123456.78
D1234_56 == [neg |-> FALSE, digs |-> <<1, 2, 3, 4, 5, 6>>, exp |-> -2]

D123456_78 == [neg |-> FALSE, digs |-> <<1, 2, 3, 4, 5, 6, 7, 8>>, exp |-> -2]

\* C4: when the cleaned string holds both '.' and ',', the later of the last
\* '.' and the last ',' is the decimal point and the other separator is
\* grouping and is removed: '$1,234.56' = 1234.56, '1,23,456.78' =
\* 123456.78, '1.234,56' with a currency prefix = 1234.56.
C4_LastSeparatorWins ==
    (amount # Pending /\ raw # Null) =>
        LET f == SignForm(Strip(raw))
            c == CleanAmount(f.s)
        IN  /\ (~SuffixMatch(f.s) /\ Contains(c, ".") /\ Contains(c, ","))
                  => amount = Converted(f.sign, LastSeparatorDecimal(c))
            /\ raw = <<"$", "1", ",", "2", "3", "4", ".", "5", "6">>
                  => amount = Value(D1234_56)
            /\ raw = <<"INR", "1", ",", "2", "3", ",", "4", "5", "6", ".", "7", "8">>
                  => amount = Value(D123456_78)
            /\ raw = <<"EUR", "1", ".", "2", "3", "4", ",", "5", "6">>
                  => amount = Value(D1234_56)
            /\ raw = <<"1", ".", "2", "3", "4", ",", "5", "6">>
                  => amount = Value(D1234_56)

C4_Witness ==
    /\ raw = <<"EUR", "1", ".", "2", "3", "4", ",", "5", "6">>
    /\ amount = Value(D1234_56)

\* s shows one of the three negative surface forms
ShowsNegative(s) ==
    \/ StartsWith(s, "(") /\ EndsWith(s, ")")
    \/ EndsWith(s, "-")
    \/ StartsWith(s, "-")

\* C5: an input that shows a negative surface form (parentheses, trailing
\* '-', leading '-') and parses gives the negative of the magnitude, never a
\* positive value; an input with none of the forms gives a non-negative one.
C5_NegativeForms ==
    (amount.kind = "value" /\ raw # Null) =>
        IF ShowsNegative(Strip(raw))
        THEN amount.val.neg \/ amount.val = Zero
        ELSE ~amount.val.neg

\* d * 10^k exactly
ExactTimesPow10(d, k) == Norm([d EXCEPT !.exp = d.exp + k])

\* C6: an unsigned <number><K|M|B>, either letter case, parses to exactly
\* number x 1,000 / 1,000,000 / 1,000,000,000.
C6_SuffixExact ==
    (amount # Pending /\ raw # Null /\ Len(raw) >= 2) =>
        LET num == SubSeq(raw, 1, Len(raw) - 1)
            c == raw[Len(raw)]
        IN  (IsPlainNumber(num) /\ c \in SuffixLetter) =>
                amount = [kind |-> "value",
                          val |-> ExactTimesPow10(DecimalOf(num),
                                     CASE c \in {"K", "k"} -> 3
                                       [] c \in {"M", "m"} -> 6
                                       [] c \in {"B", "b"} -> 9)]

\* C7: a decimal sign + digits + '.' + digits, written with a leading '-'
\* when negative, comma grouping of the integer digits and '.' as decimal
\* point, parses back to exactly that decimal.
C7_RoundTripUS ==
    (amount # Pending /\ given # NoDecimal) =>
        amount = [kind |-> "value", val |-> ExactValue(given)]

(***************************************************************************)
(* Date parsing                                                            *)
(***************************************************************************)
\* n in w digits, zero-padded
RECURSIVE Padded(_, _)
Padded(n, w) == IF w = 0 THEN <<>> ELSE Padded(n \div 10, w - 1) \o <<DigitChar(n % 10)>>

\* a date in ISO form, YYYY-MM-DD
ISOText(dt) == Padded(dt.y, 4) \o <<"-">> \o Padded(dt.m, 2) \o <<"-">> \o Padded(dt.d, 2)

\* C8: a string of digits with an optional '.digits' fraction is resolved by
\* the Excel-serial rule alone: the result is the date floor(value) days
\* after 1899-12-30, and the same day written YYYY-MM-DD parses to it.
C8_SerialRule ==
    (date # Pending /\ raw # Null /\ IsPlainNumber(Strip(raw))) =>
        /\ date.kind = "date"
        /\ ToOrdinal(date.date) = EpochOrdinal + IntOf(Head(Split(Strip(raw), ".")))
        /\ parse_date(ISOText(date.date)) = {date}

\* the digits s ends with
RECURSIVE TrailingDigits(_)
TrailingDigits(s) ==
    IF s # <<>> /\ IsDigit(s[Len(s)])
    THEN TrailingDigits(SubSeq(s, 1, Len(s) - 1)) \o <<s[Len(s)]>>
    ELSE <<>>

\* the year text of a token Q<q><sep><year>
TokenYear(s) == TrailingDigits(SubSeq(s, 3, Len(s)))

\* s is Q<q><sep><year>: q in 1..4, one separator of seps, a year of two or
\* four digits
IsQuarterToken(s, seps) ==
    /\ Len(s) >= 5
    /\ s[1] \in {"Q", "q"}
    /\ s[2] \in {"1", "2", "3", "4"}
    /\ s[3] \in seps
    /\ Len(TokenYear(s)) = Len(s) - 3
    /\ Len(TokenYear(s)) \in {2, 4}

\* the first day of quarter q of year y
QuarterStart(q, y) == DateValue([y |-> y, m |-> 3 * (q - 1) + 1, d |-> 1])

\* C9 as stated: separators '-', '/' and ' '; a two-digit year yy is
\* 2000 + yy, a four-digit year is taken as written.
C9_Original ==
    (date # Pending /\ raw # Null /\ IsQuarterToken(Strip(raw), {"-", "/", " "})) =>
        LET s == Strip(raw)
            n == IntOf(TokenYear(s))
        IN  date = QuarterStart(DigitVal(s[2]),
                                IF Len(TokenYear(s)) = 2 THEN 2000 + n ELSE n)

\* C9: for q in 1..4, a separator '-' or ' ' and a year of two or four
\* digits, Q<q><sep><year> in either letter case parses to the first day of
\* month 1, 4, 7 or 10 of the resolved year: 2000 + the year when its value
\* is below 100, the year as written otherwise.
C9_QuarterStart ==
    (date # Pending /\ raw # Null /\ IsQuarterToken(Strip(raw), {"-", " "})) =>
        LET s == Strip(raw)
            n == IntOf(TokenYear(s))
        IN  date = QuarterStart(DigitVal(s[2]), IF n < 100 THEN 2000 + n ELSE n)

C9_Witness ==
    /\ raw = <<"q", "3", " ", "2", "4">>
    /\ date = QuarterStart(3, 2024)

\* the years the notations are compared for
NotationYears == {1000, 1999, 2000, 2023, 2024, 2099, 9999}

\* the notations of quarter q of year y
Notations(q, y) ==
    { <<"Q", "u", "a", "r", "t", "e", "r", " ", DigitChar(q), " ">> \o Padded(y, 4),
      <<"Q", DigitChar(q), "-">> \o Padded(y, 4),
      Padded(y, 4) \o <<"-">> \o Padded(3 * (q - 1) + 1, 2) \o <<"-", "0", "1">> }
    \cup (IF y >= 2000 /\ y <= 2099
          THEN {<<"Q", DigitChar(q), "-">> \o Padded(y % 100, 2)}
          ELSE {})

C11_ThreeOutcomes ==
    date # Pending =>
        \/ raw = Null /\ date = Error("NullValue")
        \/ raw # Null /\ (date.kind = "date" \/ date = Error("InvalidDate"))

\* s is a/b/YYYY: a and b of one or two digits, YYYY of four
IsSlashDate(s) ==
    LET p == Split(s, "/")
    IN  /\ Len(p) = 3
        /\ AllDigits(p[1]) /\ Len(p[1]) <= 2
        /\ AllDigits(p[2]) /\ Len(p[2]) <= 2
        /\ AllDigits(p[3]) /\ Len(p[3]) = 4

\* C12: for a string a/b/YYYY the result is day a, month b whenever that is
\* a valid date; it is month a, day b when day-first is not a valid date and
\* month-first is; and it is neither of the two when neither is valid.
C12_FixedOrder ==
    (date # Pending /\ raw # Null /\ IsSlashDate(Strip(raw))) =>
        LET p == Split(Strip(raw), "/")
            a == IntOf(p[1])
            b == IntOf(p[2])
            y == IntOf(p[3])
            dayFirst   == DateValue([y |-> y, m |-> b, d |-> a])
            monthFirst == DateValue([y |-> y, m |-> a, d |-> b])
        IN  IF IsValidDate(y, b, a) THEN date = dayFirst
            ELSE IF IsValidDate(y, a, b) THEN date = monthFirst
            ELSE date \notin {dayFirst, monthFirst}

C12_Witness ==
    /\ raw = <<"1", "2", "/", "1", "3", "/", "2", "0", "2", "3">>
    /\ date = DateValue([y |-> 2023, m |-> 12, d |-> 13])

(***************************************************************************)
(* TypeDetector (src/core/type_detector.py).  A cell of a column is null,  *)
(* a text, a number or a timestamp; a confidence is the fraction num/den   *)
(* of the non-null cells that a rule read.  pd.to_datetime with a format   *)
(* reads a text as strptime does: the directives' regular expressions, in  *)
(* their order of preference, then the date of the fields.                 *)
(***************************************************************************)
NullCell == [cell |-> "null", text |-> <<>>, num |-> 0]

TextCell(s) == [cell |-> "text", text |-> s, num |-> 0]

NumberCell(n) == [cell |-> "number", text |-> <<>>, num |-> n]

\* a timestamp at midnight, by its date
TemporalCell(dt) == [cell |-> "temporal", text |-> ISOText(dt), num |-> 0]

\* str(n)
RECURSIVE NatStr(_)
NatStr(n) == IF n < 10 THEN <<DigitChar(n)>> ELSE NatStr(n \div 10) \o <<DigitChar(n % 10)>>

IntStr(n) == IF n < 0 THEN <<"-">> \o NatStr(-n) ELSE NatStr(n)

\* line 19
MIN_CONFIDENCE == [num |-> 6, den |-> 10]

\* the bar of lines 87, 100 and 112, 0.95
DateBar == [num |-> 95, den |-> 100]

\* a >= b for two fractions
AtLeast(a, b) == a.num * b.den >= b.num * a.den

One == [num |-> 1, den |-> 1]

\* lines 22-37: a format is the sequence of its directives and literals
COMMON_DATE_FORMATS ==
    << <<"%Y", "-", "%m", "-", "%d">>,
       <<"%Y", "-", "%m", "-", "%d", " ", "%H", ":", "%M", ":", "%S">>,
       <<"%Y", "-", "%m", "-", "%d", " ", "%H", ":", "%M">>,
       <<"%d", "/", "%m", "/", "%Y">>,
       <<"%d", "/", "%m", "/", "%Y", " ", "%H", ":", "%M", ":", "%S">>,
       <<"%d", "/", "%m", "/", "%Y", " ", "%H", ":", "%M">>,
       <<"%d", ".", "%m", ".", "%Y">>,
       <<"%d", ".", "%m", ".", "%Y", " ", "%H", ":", "%M", ":", "%S">>,
       <<"%d", " ", "%b", " ", "%Y">>,
       <<"%d", " ", "%B", " ", "%Y">>,
       <<"%m", "/", "%d", "/", "%Y">>,
       <<"%m", "/", "%d", "/", "%Y", " ", "%H", ":", "%M", ":", "%S">>,
       <<"%m", "/", "%d", "/", "%Y", " ", "%H", ":", "%M">>,
       <<"%m", "-", "%d", "-", "%Y">>,
       <<"%b", " ", "%d", ",", " ", "%Y">>,
       <<"%B", " ", "%d", ",", " ", "%Y">>,
       <<"%Y", "%m", "%d">>,
       <<"%d", "%m", "%Y">>,
       <<"%m", "%d", "%Y">>,
       <<"Q", "%q", "-", "%y">>,
       <<"Q", "u", "a", "r", "t", "e", "r", " ", "%q", " ", "%Y">>,
       <<"%b", "-", "%Y">>,
       <<"%B", " ", "%Y">>,
       <<"%H", ":", "%M", ":", "%S">>,
       <<"%H", ":", "%M">> >>

\* the directives strptime knows, of those the formats use
Directives == {"%Y", "%y", "%m", "%d", "%H", "%M", "%S", "%b", "%B"}

\* '%q' is no directive: the format itself is refused (ValueError)
BadFormat(fmt) == \E i \in DOMAIN fmt : fmt[i] = "%q"

\* the fields of a text before any directive is read
NoFields == [Y |-> 1900, m |-> 1, d |-> 1, S |-> 0]

\* a way to read the head of s: its length and the fields after it
Reading(n, f) == [len |-> n, fields |-> f]

\* a number of one or two digits at the head of s, lo..hi in two digits (a
\* leading 0 counts) or lo1..9 in one; the two-digit reading comes first
TwoThenOne(s, lo, hi, lo1) ==
    (IF Len(s) >= 2 /\ IsDigit(s[1]) /\ IsDigit(s[2])
        /\ IntOf(SubSeq(s, 1, 2)) >= lo /\ IntOf(SubSeq(s, 1, 2)) <= hi
     THEN <<[len |-> 2, val |-> IntOf(SubSeq(s, 1, 2))]>> ELSE <<>>)
    \o (IF Len(s) >= 1 /\ IsDigit(s[1]) /\ DigitVal(s[1]) >= lo1
        THEN <<[len |-> 1, val |-> DigitVal(s[1])]>> ELSE <<>>)

\* the readings of a number that is the field key of the date
AsField(rs, f, key) ==
    [i \in DOMAIN rs |-> Reading(rs[i].len, [f EXCEPT ![key] = rs[i].val])]

\* the readings of a number that is no field of the date (hour, minute)
AsTime(rs, f) == [i \in DOMAIN rs |-> Reading(rs[i].len, f)]

\* the month names of names that s begins with, whatever the letter case
NameReadings(s, names, f) ==
    LET hit == {i \in DOMAIN names :
                   /\ Len(names[i]) <= Len(s)
                   /\ LowerStr(SubSeq(s, 1, Len(names[i]))) = names[i]}
    IN  IF hit = {} THEN <<>>
        ELSE LET i == CHOOSE i \in hit : \A j \in hit : Len(names[i]) >= Len(names[j])
             IN  <<Reading(Len(names[i]), [f EXCEPT !.m = i])>>

\* the blanks s begins with
RECURSIVE LeadingBlanks(_)
LeadingBlanks(s) == IF s # <<>> /\ IsSpace(s[1]) THEN 1 + LeadingBlanks(Tail(s)) ELSE 0

\* \s+ : the longest run first
RECURSIVE BlankReadings(_, _)
BlankReadings(n, f) == IF n = 0 THEN <<>> ELSE <<Reading(n, f)>> \o BlankReadings(n - 1, f)

\* the readings of one directive or literal at the head of s, in the order
\* the regular expression tries them
Readings(tok, s, f) ==
    CASE tok = "%Y" ->
            IF Len(s) >= 4 /\ AllDigits(SubSeq(s, 1, 4))
            THEN <<Reading(4, [f EXCEPT !.Y = IntOf(SubSeq(s, 1, 4))])>> ELSE <<>>
      [] tok = "%y" ->
            IF Len(s) >= 2 /\ AllDigits(SubSeq(s, 1, 2))
            THEN <<Reading(2, [f EXCEPT !.Y = ShortYearField(SubSeq(s, 1, 2))])>> ELSE <<>>
      [] tok = "%m" -> AsField(TwoThenOne(s, 1, 12, 1), f, "m")
      [] tok = "%d" ->
            AsField(TwoThenOne(s, 1, 31, 1), f, "d")
            \o (IF Len(s) >= 2 /\ s[1] = " " /\ IsDigit(s[2]) /\ s[2] # "0"
                THEN <<Reading(2, [f EXCEPT !.d = DigitVal(s[2])])>> ELSE <<>>)
      [] tok = "%H" -> AsTime(TwoThenOne(s, 0, 23, 0), f)
      [] tok = "%M" -> AsTime(TwoThenOne(s, 0, 59, 0), f)
      [] tok = "%S" -> AsField(TwoThenOne(s, 0, 61, 0), f, "S")
      [] tok = "%b" -> NameReadings(s, MonthAbbr, f)
      [] tok = "%B" -> NameReadings(s, MonthFull, f)
      [] tok = " " -> BlankReadings(LeadingBlanks(s), f)
      [] OTHER -> IF s # <<>> /\ s[1] = tok THEN <<Reading(1, f)>> ELSE <<>>

\* the fields of s read by fmt from its first to its last character, in the
\* first way the regular expression finds
RECURSIVE Strptime(_, _, _), FirstReading(_, _, _)
Strptime(fmt, s, f) ==
    IF fmt = <<>> THEN [ok |-> s = <<>>, fields |-> f]
    ELSE FirstReading(Readings(Head(fmt), s, f), fmt, s)

FirstReading(rs, fmt, s) ==
    IF rs = <<>> THEN [ok |-> FALSE, fields |-> NoFields]
    ELSE LET r == Strptime(Tail(fmt), SubSeq(s, rs[1].len + 1, Len(s)), rs[1].fields)
         IN  IF r.ok THEN r ELSE FirstReading(Tail(rs), fmt, s)

\* the years a Timestamp of nanosecond resolution holds in full
TimestampMinYear == 1678

TimestampMaxYear == 2261

\* pd.to_datetime(text, format=fmt, errors='coerce') is not NaT
ReadsAs(fmt, s) ==
    LET r == Strptime(fmt, s, NoFields)
    IN  /\ r.ok
        /\ IsValidDate(r.fields.Y, r.fields.m, r.fields.d)
        /\ r.fields.S <= 59
        /\ r.fields.Y >= TimestampMinYear /\ r.fields.Y <= TimestampMaxYear

\* series.dropna()
DropNa(col) == SelectSeq(col, LAMBDA c : c.cell # "null")

\* the dtype pandas gives a column of these cells: numbers alone are int64,
\* numbers with a missing cell float64, timestamps datetime64, the rest object
Dtype(col) ==
    LET s == DropNa(col)
    IN  IF s = <<>> THEN "object"
        ELSE IF \A i \in DOMAIN s : s[i].cell = "number"
        THEN (IF Len(s) = Len(col) THEN "int64" ELSE "float64")
        ELSE IF \A i \in DOMAIN s : s[i].cell = "temporal" THEN "datetime64"
        ELSE "object"

\* line 94: astype(str) of one cell
StrOf(c, dtype) ==
    CASE c.cell = "number" ->
            IntStr(c.num) \o (IF dtype = "float64" THEN <<".", "0">> ELSE <<>>)
      [] c.cell = "temporal" ->
            c.text \o (IF dtype = "datetime64" THEN <<>>
                       ELSE <<" ", "0", "0", ":", "0", "0", ":", "0", "0">>)
      [] OTHER -> c.text

\* the number of the texts that satisfy Reads
Successes(texts, Reads(_)) == Cardinality({i \in DOMAIN texts : Reads(texts[i])})

Rate(k, n) == [num |-> k, den |-> n]

\* max(max_success, success_rate), both over the same cells
MaxRate(a, b) == IF a.num >= b.num THEN a ELSE b

\* the serial of Timestamp.max, 2262-04-11
MaxTimestampSerial == 132320

\* SerialAttempt with the bounds of line 77 included in the window
SerialAttempt_Inclusive(s, dtype) ==
    IF /\ dtype \in {"int64", "float64"}
       /\ \A i \in DOMAIN s : s[i].num >= 1000 /\ s[i].num <= 1000000
    THEN Rate(Cardinality({i \in DOMAIN s : s[i].num <= MaxTimestampSerial}), Len(s))
    ELSE Rate(0, Len(s))

\* lines 76-90: the Excel serials of a numeric column.  A serial past
\* Timestamp.max is coerced to NaT.
SerialAttempt(s, dtype) ==
    IF /\ dtype \in {"int64", "float64"}
       /\ \A i \in DOMAIN s : s[i].num > 1000 /\ s[i].num < 1000000
    THEN Rate(Cardinality({i \in DOMAIN s : s[i].num <= MaxTimestampSerial}), Len(s))
    ELSE Rate(0, Len(s))

\* lines 98-99 for one format; a refused format counts for nothing (line 103)
FormatRate(fmt, texts) ==
    IF BadFormat(fmt) THEN Rate(0, Len(texts))
    ELSE Rate(Successes(texts, LAMBDA x : ReadsAs(fmt, x)), Len(texts))

\* the texts the format-free parser cannot read: the empty text and a text
\* with a word that is no month name.  What it makes of any other text is the
\* library's affair (oracle).
GenericRejects(x) == x = <<>> \/ \E w \in Words(x) : ~IsMonthName(w)

\* lines 110-111
GenericRate(texts, lib) ==
    Rate(Successes(texts, LAMBDA x : ~GenericRejects(x) /\ x \in lib), Len(texts))

\* the largest of the rates of the formats up to the i-th
RECURSIVE BestFormatRate(_, _)
BestFormatRate(texts, i) ==
    IF i = 0 THEN Rate(0, Len(texts))
    ELSE MaxRate(BestFormatRate(texts, i - 1), FormatRate(COMMON_DATE_FORMATS[i], texts))

\* lines 73-118: _try_datetime
try_datetime(s, dtype, lib) ==
    LET texts   == [i \in DOMAIN s |-> StrOf(s[i], dtype)]
        serial  == SerialAttempt(s, dtype)
        passing == {i \in DOMAIN COMMON_DATE_FORMATS :
                       AtLeast(FormatRate(COMMON_DATE_FORMATS[i], texts), DateBar)}
        generic == GenericRate(texts, lib)
    IN  IF AtLeast(serial, DateBar) THEN [succ |-> TRUE, conf |-> serial]
        ELSE IF passing # {}
        THEN [succ |-> TRUE,
              conf |-> FormatRate(COMMON_DATE_FORMATS[
                           CHOOSE i \in passing : \A j \in passing : i <= j], texts)]
        ELSE IF AtLeast(generic, DateBar) THEN [succ |-> TRUE, conf |-> generic]
        ELSE [succ |-> FALSE,
              conf |-> MaxRate(BestFormatRate(texts, Len(COMMON_DATE_FORMATS)), generic)]

\* lines 125-126: currency signs and commas, then all blanks, removed
NumStripFormatting(x) == SelectSeq(x, LAMBDA c : c \notin Currency \cup {",", " "})

\* line 130: \(([^)]+)\) replaced by -\1, wherever it occurs
RECURSIVE NumUnwrapParens(_)
NumUnwrapParens(x) ==
    IF x = <<>> THEN <<>>
    ELSE IF x[1] = "(" /\ Contains(Tail(x), ")")
    THEN LET j == CHOOSE i \in 2..Len(x) :
                     x[i] = ")" /\ \A k \in 2..Len(x) : x[k] = ")" => i <= k
         IN  IF j >= 3
             THEN <<"-">> \o SubSeq(x, 2, j - 1) \o NumUnwrapParens(SubSeq(x, j + 1, Len(x)))
             ELSE <<x[1]>> \o NumUnwrapParens(Tail(x))
    ELSE <<x[1]>> \o NumUnwrapParens(Tail(x))

\* line 131: (\d)-$ replaced by -\1: the minus moves before the LAST digit
NumMoveTrailingMinus(x) ==
    IF Len(x) >= 2 /\ x[Len(x)] = "-" /\ IsDigit(x[Len(x) - 1])
    THEN SubSeq(x, 1, Len(x) - 2) \o <<"-", x[Len(x) - 1]>> ELSE x

\* line 135: ^([+-]?\d+\.?\d*)([KkMmBb])$
NumSuffixPattern(x) ==
    /\ Len(x) >= 2
    /\ x[Len(x)] \in SuffixLetter
    /\ LET b == SubSeq(x, 1, Len(x) - 1)
           u == IF b[1] \in {"+", "-"} THEN Tail(b) ELSE b
       IN  /\ u # <<>> /\ IsDigit(u[1])
           /\ \A i \in DOMAIN u : IsDigit(u[i]) \/ u[i] = "."
           /\ Count(u, ".") <= 1

\* the spellings of Infinity and NaN that Decimal takes, in lower case
SpecialDecimals ==
    { <<"i", "n", "f">>, <<"i", "n", "f", "i", "n", "i", "t", "y">>,
      <<"n", "a", "n">>, <<"s", "n", "a", "n">> }

\* Decimal(x) does not raise InvalidOperation: a numeral or a special value,
\* with or without a sign.  (None of the texts here has an exponent.)
DecimalAccepts(x) ==
    LET u == IF x # <<>> /\ x[1] \in {"+", "-"} THEN Tail(x) ELSE x
    IN  IsDecimalLiteral(x) \/ LowerStr(u) \in SpecialDecimals

\* lines 137-147: parse
NumParse(x) == NumSuffixPattern(x) \/ DecimalAccepts(x)

\* try_number accepting only above the bar of line 151
try_number_Strict(s, dtype) ==
    LET cleaned == [i \in DOMAIN s |->
                       NumMoveTrailingMinus(NumUnwrapParens(
                           NumStripFormatting(StrOf(s[i], dtype))))]
        conf == Rate(Successes(cleaned, NumParse), Len(s))
    IN  [succ |-> ~AtLeast(MIN_CONFIDENCE, conf), conf |-> conf]

\* lines 121-151: _try_number
try_number(s, dtype) ==
    LET cleaned == [i \in DOMAIN s |->
                       NumMoveTrailingMinus(NumUnwrapParens(
                           NumStripFormatting(StrOf(s[i], dtype))))]
        conf == Rate(Successes(cleaned, NumParse), Len(s))
    IN  [succ |-> AtLeast(conf, MIN_CONFIDENCE), conf |-> conf]

Detected(type, conf) == [kind |-> "detected", type |-> type, conf |-> conf]

\* detect without lines 49-50
detect_NoEmptyCheck(col, lib) ==
    LET s   == DropNa(col)
        dt  == try_datetime(s, Dtype(col), lib)
        num == try_number(s, Dtype(col))
    IN  IF dt.succ THEN Detected("datetime", dt.conf)
        ELSE IF num.succ THEN Detected("number", num.conf)
        ELSE Detected("str", One)

\* detect with the default of line 63 carrying the numeric confidence
detect_TextConfidence(col, lib) ==
    LET s == DropNa(col)
    IN  IF s = <<>> THEN Detected("str", One)
        ELSE LET dt  == try_datetime(s, Dtype(col), lib)
                 num == try_number(s, Dtype(col))
             IN  IF dt.succ THEN Detected("datetime", dt.conf)
                 ELSE IF num.succ THEN Detected("number", num.conf)
                 ELSE Detected("str", num.conf)

\* detect with the number attempt before the date attempt
detect_NumberFirst(col, lib) ==
    LET s == DropNa(col)
    IN  IF s = <<>> THEN Detected("str", One)
        ELSE LET dt  == try_datetime(s, Dtype(col), lib)
                 num == try_number(s, Dtype(col))
             IN  IF num.succ THEN Detected("number", num.conf)
                 ELSE IF dt.succ THEN Detected("datetime", dt.conf)
                 ELSE Detected("str", One)

\* lines 42-63: detect
detect(col, lib) ==
    LET s == DropNa(col)
    IN  IF s = <<>> THEN Detected("str", One)
        ELSE LET dt  == try_datetime(s, Dtype(col), lib)
                 num == try_number(s, Dtype(col))
             IN  IF dt.succ THEN Detected("datetime", dt.conf)
                 ELSE IF num.succ THEN Detected("number", num.conf)
                 ELSE Detected("str", One)

\* detect_all with every column judged by the cells of the whole table
detect_all_Shared(tbl, lib) ==
    LET names == DOMAIN tbl
        first == CHOOSE c \in names : TRUE
    IN  [c \in names |-> detect(tbl[first], lib)]

\* lines 66-68: detect_all, the table a mapping from column names to columns
detect_all(tbl, lib) == [c \in DOMAIN tbl |-> detect(tbl[c], lib)]

(***************************************************************************)
(* The columns and tables given to the detector                            *)
(***************************************************************************)
\* the longest column built from DetectCells
MaxCells == 2

ISO_2023_12_31 == <<"2", "0", "2", "3", "-", "1", "2", "-", "3", "1">>

DetectCells ==
    { NullCell,
      TextCell(<<"a", "b", "c">>),
      TextCell(<<"1", ".", "2">>),
      TextCell(<<"5", "K">>),
      TextCell(<<"2", "0", "2", "3", "0", "1", "0", "1">>),
      TextCell(ISO_2023_12_31),
      NumberCell(44927),
      TemporalCell([y |-> 2023, m |-> 1, d |-> 1]) }

\* n copies of the cell c
RECURSIVE Cells(_, _)
Cells(c, n) == IF n = 0 THEN <<>> ELSE <<c>> \o Cells(c, n - 1)

\* the columns of the tests, and columns long enough to sit on either side
\* of the two bars
DetectExamples ==
    { <<TextCell(<<"a", "b", "c">>), TextCell(<<"d", "e", "f">>), NullCell>>,
      <<TextCell(<<"1", ".", "2">>), TextCell(<<"3", ".", "4">>), NullCell>>,
      <<TextCell(ISO_2023_12_31),
        TextCell(<<"2", "0", "2", "4", "-", "0", "1", "-", "0", "1">>), NullCell>>,
      <<NullCell, NullCell, NullCell>>,
      Cells(TextCell(ISO_2023_12_31), 19) \o <<TextCell(<<"a", "b", "c">>)>>,
      Cells(TextCell(ISO_2023_12_31), 18) \o Cells(TextCell(<<"a", "b", "c">>), 2),
      Cells(TextCell(<<"7">>), 3) \o Cells(TextCell(<<"x">>), 2),
      Cells(TextCell(<<"7">>), 1) \o Cells(TextCell(<<"x">>), 2),
      Cells(NumberCell(44927), 19) \o <<NumberCell(200000)>>,
      <<NumberCell(1200), NullCell>>,
      <<NumberCell(5), NumberCell(-5)>>,
      <<TextCell(<<>>), TextCell(<<" ">>)>>,
      <<TextCell(<<"n", "a", "n">>), TextCell(<<"-", "I", "n", "f">>)>>,
      <<TextCell(<<"$", "1", ",", "2", "0", "0">>), TextCell(<<"(", "5", ")">>),
        TextCell(<<"1", "2", "-">>)>>,
      <<TextCell(<<"1", "2", "/", "3", "1", "/", "2", "0", "2", "3">>),
        TextCell(<<"0", "1", "/", "0", "2", "/", "2", "0", "2", "3">>)>>,
      <<TextCell(<<"3", "1", ".", "1", "2", ".", "2", "0", "2", "3">>)>>,
      <<TextCell(<<"0", "7", ":", "3", "0">>), TextCell(<<"2", "3", ":", "5", "9", ":", "6", "0">>)>>,
      <<TextCell(<<"Q", "1", "-", "2", "4">>)>>,
      <<TextCell(<<"J", "a", "n", " ", "5", ",", " ", "2", "0", "2", "3">>)>>,
      <<TextCell(<<"M", "a", "y", " ", "2", "0", "2", "3">>)>>,
      <<TemporalCell([y |-> 2023, m |-> 1, d |-> 1]), NumberCell(5)>>,
      <<NumberCell(200000), NumberCell(300000)>>,
      <<NumberCell(1500), NumberCell(2500)>>,
      <<NumberCell(1000), NumberCell(44927)>>,
      <<NumberCell(1001), NullCell>>,
      <<NumberCell(44927), NumberCell(1000000)>>,
      <<NumberCell(20230101)>>,
      Cells(TextCell(<<"7">>), 3) \o Cells(TextCell(<<"x">>), 2) \o Cells(NullCell, 3),
      <<TextCell(<<"1", "2", "3", "4", "-">>)>>,
      <<TextCell(<<"(", "1", "2", "3", "4", ")">>)>>,
      <<TextCell(<<"$", "1", ",", "2", "3", "4", "-">>), TextCell(<<"5", "-">>)>> }

DetectColumns == StringsUpTo(DetectCells, MaxCells) \cup DetectExamples

\* the texts of a column on which the format-free parser is free
OpenTexts(col) ==
    {StrOf(DropNa(col)[i], Dtype(col)) : i \in DOMAIN DropNa(col)}
        \ {x \in {StrOf(DropNa(col)[i], Dtype(col)) : i \in DOMAIN DropNa(col)} :
              GenericRejects(x)}

ColumnNames == {"amount", "posted", "memo"}

TableColumns ==
    { <<TextCell(<<"1", ".", "2">>), TextCell(<<"3", ".", "4">>), NullCell>>,
      <<TextCell(<<"2", "0", "2", "3", "0", "1", "0", "1">>)>>,
      <<NullCell, TextCell(ISO_2023_12_31)>>,
      <<TextCell(<<"a", "b", "c">>), NullCell>>,
      <<NullCell>>,
      <<NumberCell(44927)>> }

Tables == UNION {[names -> TableColumns] : names \in SUBSET ColumnNames \ {{}}}

(***************************************************************************)
(* The detector's entry points as actions                                  *)
(***************************************************************************)
ParserIdle ==
    /\ raw = Null /\ given = NoDecimal /\ column = <<>>
    /\ amount = Pending /\ batch = Pending /\ date = Pending

InitDetect ==
    /\ \/ /\ detect_series \in DetectColumns
          /\ table = <<>>
          /\ oracle \in SUBSET OpenTexts(detect_series)
       \/ /\ detect_series = <<>>
          /\ table \in Tables
          /\ oracle \in SUBSET UNION {OpenTexts(table[c]) : c \in DOMAIN table}
    /\ detection = Pending
    /\ ParserIdle
    /\ filters = "default" /\ threads = <<>>
    /\ df = <<>> /\ dataframes = <<>> /\ amount_range = <<>> /\ queried = Pending
    /\ local = <<>> /\ stored_by = <<>>

\* TypeDetector.detect(detect_series)
Detect ==
    /\ detection' = detect(detect_series, oracle)
    /\ UNCHANGED <<detect_series, table, oracle, parserVars, threadVars, storageVars>>

\* TypeDetector.detect_all(table)
DetectAll ==
    /\ detection' = [kind |-> "all", entries |-> detect_all(table, oracle)]
    /\ UNCHANGED <<detect_series, table, oracle, parserVars, threadVars, storageVars>>

SpecDetect == InitDetect /\ [][Detect \/ DetectAll]_vars

(***************************************************************************)
(* Type detection                                                          *)
(***************************************************************************)
\* C13: a column that is empty or holds null cells alone is text ('str')
\* with confidence exactly 1.0.
C13_AllNullIsText ==
    (detection.kind = "detected" /\ \A i \in DOMAIN detect_series : detect_series[i] = NullCell)
        => detection = Detected("str", One)

C13_Witness ==
    /\ detect_series = <<NullCell, NullCell, NullCell>>
    /\ detection = Detected("str", One)

\* one result of detect: a type of the three, a confidence in [0, 1], and
\* confidence 1.0 whenever the type is text
WellFormed(r) ==
    /\ r.kind = "detected"
    /\ r.type \in {"str", "number", "datetime"}
    /\ r.conf.den > 0 /\ r.conf.num >= 0 /\ r.conf.num <= r.conf.den
    /\ r.type = "str" => r.conf.num = r.conf.den

\* C14: detect never fails: for any column, whatever mix of null, text,
\* numeric and temporal cells it holds, it returns one type of text, numeric
\* and temporal with a confidence in [0, 1], and the confidence is 1.0
\* whenever the type is text.
C14_AlwaysClassifies ==
    /\ detection.kind \in {"pending", "detected", "all"}
    /\ detection.kind = "detected" => WellFormed(detection)
    /\ detection.kind = "all" =>
           \A c \in DOMAIN detection.entries : WellFormed(detection.entries[c])

C14_Witness ==
    /\ detect_series = Cells(TextCell(<<"7">>), 1) \o Cells(TextCell(<<"x">>), 2)
    /\ detection = Detected("str", One)

\* the texts of the non-null cells of a column of texts, none if some cell is
\* a number or a timestamp or if all cells are null
TextsOf(col) ==
    IF DropNa(col) # <<>> /\ \A i \in DOMAIN DropNa(col) : DropNa(col)[i].cell = "text"
    THEN {DropNa(col)[i].text : i \in DOMAIN DropNa(col)}
    ELSE {}

\* every value is a number written in digits, with or without a sign and a
\* decimal point
IsNumericStrings(col) ==
    TextsOf(col) # {} /\ \A x \in TextsOf(col) : IsDecimalLiteral(x) /\ x = Strip(x)

\* every value is YYYY-MM-DD, a date of a year that a Timestamp holds
IsISOStrings(col) ==
    /\ TextsOf(col) # {}
    /\ \A x \in TextsOf(col) :
          /\ Len(x) = 10 /\ x[5] = "-" /\ x[8] = "-"
          /\ AllDigits(SubSeq(x, 1, 4)) /\ AllDigits(SubSeq(x, 6, 7))
          /\ AllDigits(SubSeq(x, 9, 10))
          /\ IsValidDate(IntOf(SubSeq(x, 1, 4)), IntOf(SubSeq(x, 6, 7)),
                         IntOf(SubSeq(x, 9, 10)))
          /\ IntOf(SubSeq(x, 1, 4)) >= TimestampMinYear
          /\ IntOf(SubSeq(x, 1, 4)) <= TimestampMaxYear

\* every value is a word that is no number, no month and no special decimal
IsFreeText(col) ==
    /\ TextsOf(col) # {}
    /\ \A x \in TextsOf(col) :
          /\ x # <<>> /\ \A i \in DOMAIN x : IsLetter(x[i])
          /\ ~IsMonthName(x) /\ LowerStr(x) \notin SpecialDecimals

\* the entries are those of the table's names, each the result of detect_all
\* on the column alone
OnePerColumn ==
    /\ DOMAIN detection.entries = DOMAIN table
    /\ \A c \in DOMAIN table :
          detection.entries[c] = detect_all([d \in {c} |-> table[c]], oracle)[c]

TemporalTakes(col) ==
    LET texts == [i \in DOMAIN DropNa(col) |-> DropNa(col)[i].text]
    IN  \/ \E i \in DOMAIN COMMON_DATE_FORMATS :
              AtLeast(FormatRate(COMMON_DATE_FORMATS[i], texts), DateBar)
        \/ AtLeast(GenericRate(texts, oracle), DateBar)

ThreadIds == {"t1", "t2"}

\* the table of a sequence of <<name, column>> pairs
TableOf(pairs) ==
    [c \in {pairs[i][1] : i \in DOMAIN pairs} |->
        pairs[CHOOSE i \in DOMAIN pairs : pairs[i][1] = c][2]]

\* a call before its first step: of detect on cols[1], of detect_all on the
\* columns cols of the table pairs, or of a parser on text or cols[1]
Call(op, cols, pairs, text, warns) ==
    [op |-> op, cols |-> cols, pairs |-> pairs, text |-> text, warns |-> warns,
     pc |-> "call", todo |-> cols, saved |-> "none", raised |-> FALSE,
     out |-> <<>>]

Numbers_1_2 == <<TextCell(<<"1", ".", "2">>), TextCell(<<"3", ".", "4">>), NullCell>>

Mixed_Date == <<TextCell(ISO_2023_12_31), TextCell(<<"1", ".", "2">>)>>

ThreadTable ==
    << <<"amount", Numbers_1_2>>, <<"posted", <<TextCell(ISO_2023_12_31)>> >> >>

\* the calls a thread may make; warns says whether the format-free parser
\* issues its UserWarning on the column (could not infer a format)
Calls ==
    {Call("detect", <<Numbers_1_2>>, <<>>, <<>>, w) : w \in BOOLEAN}
    \cup {Call("detect", <<Mixed_Date>>, <<>>, <<>>, TRUE)}
    \cup {Call("detect", <<c>>, <<>>, <<>>, FALSE) :
        c \in {<<NullCell>>, <<TextCell(ISO_2023_12_31)>>}}
    \cup {Call("detect_all", <<ThreadTable[1][2], ThreadTable[2][2]>>, ThreadTable, <<>>, TRUE)}
    \cup {Call("parse_amount", <<>>, <<>>, <<"(", "2", ".", "5", "M", ")">>, FALSE)}
    \cup {Call("parse_amount_vectorized", <<>>, <<>>, <<"1", ",", "5">>, FALSE)}
    \cup {Call("parse_date", <<>>, <<>>, <<"Q", "1", "-", "2", "4">>, FALSE)}

\* _try_datetime reaches line 107: the column has cells, and neither the
\* serials nor any format take it
ReachesGeneric(col) ==
    /\ DropNa(col) # <<>>
    /\ ~try_datetime(DropNa(col), Dtype(col), {}).succ

\* what a call returns when no other call runs
Alone(c, lib) ==
    CASE c.op = "detect" -> detect(c.cols[1], lib)
      [] c.op = "detect_all" -> [kind |-> "all", entries |-> detect_all(TableOf(c.pairs), lib)]
      [] c.op = "parse_amount" -> parse_amount(c.text)
      [] c.op = "parse_amount_vectorized" -> parse_amount_vectorized(<<c.text>>)
      [] c.op = "parse_date" -> CHOOSE r \in parse_date(c.text) : TRUE

\* what a finished call returns: out holds the results of its detect calls
Returned(c) ==
    CASE c.op = "detect" -> c.out[1]
      [] c.op = "detect_all" ->
            [kind |-> "all",
             entries |-> [n \in {c.pairs[i][1] : i \in DOMAIN c.pairs} |->
                             c.out[CHOOSE i \in DOMAIN c.pairs : c.pairs[i][1] = n]]]
      [] OTHER -> c.out[1]

InitThreads ==
    /\ threads \in [ThreadIds -> Calls]
    /\ \A t, u \in ThreadIds :
          (threads[t].op = threads[u].op /\ threads[t].cols = threads[u].cols)
              => threads[t].warns = threads[u].warns
    /\ filters \in {"default", "error"}
    /\ oracle \in {{}, {<<"1", ".", "2">>, <<"3", ".", "4">>, ISO_2023_12_31}}
    /\ detect_series = <<>> /\ table = <<>> /\ detection = Pending
    /\ ParserIdle
    /\ df = <<>> /\ dataframes = <<>> /\ amount_range = <<>> /\ queried = Pending
    /\ local = <<>> /\ stored_by = <<>>

\* what no step of a thread touches
threadOthers == <<detect_series, table, oracle, detection, parserVars, storageVars>>

\* the call moves on after one detect: to its next column or to its end
Advance(c, r) ==
    [c EXCEPT !.out = Append(c.out, r),
              !.todo = Tail(c.todo),
              !.raised = FALSE,
              !.pc = IF Len(c.todo) > 1 THEN "call" ELSE "done"]

\* a parser runs from call to return
RunParser(t) ==
    /\ threads[t].pc = "call"
    /\ threads[t].op \in {"parse_amount", "parse_amount_vectorized", "parse_date"}
    /\ threads' = [threads EXCEPT ![t] =
                      [@ EXCEPT !.out = <<Alone(threads[t], oracle)>>, !.pc = "done"]]
    /\ UNCHANGED <<filters, threadOthers>>

\* detect on the next column, lines 47-104, when that settles the result
\* (no cells; serials or a format taken)
DetectQuietly(t) ==
    /\ threads[t].pc = "call"
    /\ threads[t].op \in {"detect", "detect_all"}
    /\ ~ReachesGeneric(Head(threads[t].todo))
    /\ threads' = [threads EXCEPT ![t] =
                      Advance(@, detect(Head(threads[t].todo), oracle))]
    /\ UNCHANGED <<filters, threadOthers>>

\* lines 47-107: detect comes to `with warnings.catch_warnings()`, whose
\* __enter__ keeps the filters of the moment
EnterCatchWarnings(t) ==
    /\ threads[t].pc = "call"
    /\ threads[t].op \in {"detect", "detect_all"}
    /\ ReachesGeneric(Head(threads[t].todo))
    /\ threads' = [threads EXCEPT ![t] = [@ EXCEPT !.saved = filters, !.pc = "simplefilter"]]
    /\ UNCHANGED <<filters, threadOthers>>

\* line 108: warnings.simplefilter("ignore", category=UserWarning)
SimpleFilter(t) ==
    /\ threads[t].pc = "simplefilter"
    /\ filters' = "ignore"
    /\ threads' = [threads EXCEPT ![t] = [@ EXCEPT !.pc = "to_datetime"]]
    /\ UNCHANGED threadOthers

\* lines 109-116: pd.to_datetime(s_str, errors='coerce'); its UserWarning is
\* raised when the filters of the moment say "error", and line 115 passes
ToDatetime(t) ==
    /\ threads[t].pc = "to_datetime"
    /\ threads' = [threads EXCEPT ![t] =
                      [@ EXCEPT !.raised = threads[t].warns /\ filters = "error",
                                !.pc = "exit"]]
    /\ UNCHANGED <<filters, threadOthers>>

\* the end of the with block: __exit__ puts back the filters it kept; then
\* lines 118 and 58-63
ExitCatchWarnings(t) ==
    /\ threads[t].pc = "exit"
    /\ filters' = threads[t].saved
    /\ threads' = [threads EXCEPT ![t] =
                      Advance(@, detect(Head(threads[t].todo),
                                        IF threads[t].raised THEN {} ELSE oracle))]
    /\ UNCHANGED threadOthers

NextThreads ==
    \/ \E t \in ThreadIds : RunParser(t)
    \/ \E t \in ThreadIds : DetectQuietly(t)
    \/ \E t \in ThreadIds : EnterCatchWarnings(t)
    \/ \E t \in ThreadIds : SimpleFilter(t)
    \/ \E t \in ThreadIds : ToDatetime(t)
    \/ \E t \in ThreadIds : ExitCatchWarnings(t)

SpecConcurrent == InitThreads /\ [][NextThreads]_vars

\* C16: the five operations read and write no shared state: in every
\* interleaving of concurrent calls, a call that has returned has returned
\* what it returns when run alone, and once every call has returned the
\* warning filters of the process are those it began with (never "ignore").
C16_NoSharedState ==
    /\ \A t \in DOMAIN threads :
          threads[t].pc = "done" => Returned(threads[t]) = Alone(threads[t], oracle)
    /\ (threads # <<>> /\ \A t \in DOMAIN threads : threads[t].pc = "done")
          => filters # "ignore"

(***************************************************************************)
(* DataStorage (src/core/data_storage.py).  A frame has its column names   *)
(* in order, the names of its index levels (none for the default index),   *)
(* the dtype of its numeric columns and its rows; a row maps each column   *)
(* and index name to a cell.  Amounts are counted in tenths.  A binary     *)
(* float is the decimal it was made from and the side on which it lies:    *)
(* dir = -1 just below, 0 exactly on it, 1 just above.                     *)
(***************************************************************************)
StoredCell(null, tenths, label) == [null |-> null, tenths |-> tenths, label |-> label]

RECURSIVE Pow2(_)
Pow2(n) == IF n = 0 THEN 1 ELSE 2 * Pow2(n - 1)

\* 2^e modulo 20
RECURSIVE Pow2Mod20(_)
Pow2Mod20(e) == IF e = 0 THEN 1 ELSE (2 * Pow2Mod20(e - 1)) % 20

\* the bits of a double's significand
MantissaBits == 53

\* float(d) for the decimal d = a/10, a >= 0, by its side of d: with
\* 2^52 <= a * 2^e / 10 < 2^53, the quotient q and remainder r of a * 2^e by
\* 10 give the double q / 2^e or (q + 1) / 2^e, the nearer one, the even one
\* on a tie
FloatDir(a) ==
    IF a = 0 THEN 0
    ELSE LET L == IF a >= 10
                  THEN CHOOSE k \in 0..30 : Pow2(k) * 10 <= a /\ a < Pow2(k + 1) * 10
                  ELSE -(CHOOSE j \in 1..4 : a * Pow2(j) >= 10 /\ a * Pow2(j - 1) < 10)
             e == (MantissaBits - 1) - L
             x == ((a % 20) * Pow2Mod20(e)) % 20
             r == x % 10
         IN  IF r = 0 THEN 0
             ELSE IF r < 5 THEN -1
             ELSE IF r > 5 THEN 1
             ELSE IF x >= 10 THEN 1 ELSE -1

\* line 100: float(amount_range[i])
ToFloat(a) == [tenths |-> a, dir |-> FloatDir(a)]

\* a cell of a column of the dtype, as the number the comparison sees: a
\* float64 cell is a double, an int64 or Decimal cell is exact
Seen(c, dtype) ==
    [tenths |-> c.tenths, dir |-> IF dtype = "float64" THEN FloatDir(c.tenths) ELSE 0]

\* x <= y for two such numbers
NotAbove(x, y) == x.tenths < y.tenths \/ (x.tenths = y.tenths /\ x.dir <= y.dir)

\* lines 107-109 and 118: (values >= low) & (values <= high); a missing
\* value compares False
InRange(c, dtype, low, high) ==
    /\ ~c.null
    /\ NotAbove(low, Seen(c, dtype))
    /\ NotAbove(Seen(c, dtype), high)

\* w in s
HasSubstring(s, w) ==
    \E i \in 1..(Len(s) - Len(w) + 1) : SubSeq(s, i, i + Len(w) - 1) = w

\* lines 106 and 117: 'amount' in name.lower() or 'value' in name.lower()
NamesAmount(name) ==
    \/ HasSubstring(LowerStr(name), <<"a", "m", "o", "u", "n", "t">>)
    \/ HasSubstring(LowerStr(name), <<"v", "a", "l", "u", "e">>)

\* the first of the names that names an amount, <<>> if none does
FirstAmountName(names) ==
    IF \E i \in DOMAIN names : NamesAmount(names[i])
    THEN names[CHOOSE i \in DOMAIN names :
                   NamesAmount(names[i]) /\ \A j \in DOMAIN names : NamesAmount(names[j]) => i <= j]
    ELSE <<>>

\* rows in ascending order of the column c, missing values last, equal
\* values in their old order
RECURSIVE SortRows(_, _)
SortRows(rows, c) ==
    IF rows = <<>> THEN <<>>
    ELSE LET Before(r, s) == ~r[c].null /\ (s[c].null \/ r[c].tenths < s[c].tenths)
             i == CHOOSE i \in DOMAIN rows :
                      /\ \A j \in DOMAIN rows : ~Before(rows[j], rows[i])
                      /\ \A j \in 1..(i - 1) : Before(rows[i], rows[j])
         IN  <<rows[i]>> \o SortRows(SubSeq(rows, 1, i - 1) \o SubSeq(rows, i + 1, Len(rows)), c)

\* line 41: df.set_index(index_cols).sort_index()
SetIndexSorted(frame, c) ==
    [frame EXCEPT !.names = SelectSeq(frame.names, LAMBDA n : n # c),
                  !.index = <<c>>,
                  !.rows = SortRows(frame.rows, c)]

\* lines 46-57: the copy written to SQLite, Decimal cells as floats
SqlCopy(frame) ==
    [frame EXCEPT !.dtype = IF frame.dtype = "Decimal" THEN "float64" ELSE frame.dtype]

\* lines 23-28: _get_sqlite_conn; the connections after it, the calling
\* thread's made empty on its first use
get_sqlite_conn(conns, thread) ==
    IF thread \in DOMAIN conns THEN conns
    ELSE [t \in DOMAIN conns \cup {thread} |-> IF t = thread THEN <<>> ELSE conns[t]]

\* lines 44 and 57: to_sql(name, conn, if_exists="replace") on the calling
\* thread's connection; the connections after it
to_sql(conns, thread, name, frame) ==
    LET made == get_sqlite_conn(conns, thread)
    IN  [made EXCEPT ![thread] =
            [n \in DOMAIN made[thread] \cup {name} |->
                IF n = name THEN SqlCopy(frame) ELSE made[thread][n]]]

\* lines 37-41 of store: the datasets after it
store(frames, name, frame, column_types, index_cols) ==
    LET entry == [frame |-> IF index_cols # <<>>
                            THEN SetIndexSorted(frame, index_cols[1]) ELSE frame,
                  types |-> column_types]
    IN  [n \in DOMAIN frames \cup {name} |-> IF n = name THEN entry ELSE frames[n]]

\* lines 98-120: the amount filter, on the first index level that names an
\* amount, else on the first such column, else none
AmountFilter(frame, range) ==
    LET level == FirstAmountName(frame.index)
        col   == IF level # <<>> THEN level ELSE FirstAmountName(frame.names)
    IN  IF col = <<>> THEN frame
        ELSE [frame EXCEPT !.rows =
                 SelectSeq(frame.rows, LAMBDA r :
                     InRange(r[col], frame.dtype, ToFloat(range[1]), ToFloat(range[2])))]

\* lines 59-122: query with no filters and no date_range; amount_range <<>>
\* is None
query(frames, dataset, range) ==
    IF dataset \notin DOMAIN frames THEN Error("KeyError")
    ELSE [kind |-> "frame", dataset |-> dataset,
          frame |-> IF range = <<>> THEN frames[dataset].frame
                    ELSE AmountFilter(frames[dataset].frame, range)]

\* line 130: reset_index puts the index levels back before the columns
ResetIndex(frame) == [frame EXCEPT !.names = frame.index \o frame.names, !.index = <<>>]

\* lines 124-135: aggregate(dataset, [group_by], {measure: 'count'}): for each
\* label under group_by, the number of its rows with a value under measure
aggregate(frames, dataset, group_by, measure) ==
    IF dataset \notin DOMAIN frames THEN Error("KeyError")
    ELSE LET f == ResetIndex(frames[dataset].frame)
             labels == {f.rows[i][group_by].label : i \in DOMAIN f.rows}
         IN  IF ~\E i \in DOMAIN f.names : f.names[i] = group_by THEN Error("KeyError")
             ELSE IF ~\E i \in DOMAIN f.names : f.names[i] = measure THEN Error("KeyError")
             ELSE [kind |-> "groups", dataset |-> dataset,
                   groups |-> [l \in labels |->
                       Cardinality({i \in DOMAIN f.rows :
                           f.rows[i][group_by].label = l /\ ~f.rows[i][measure].null})]]

\* sql with one connection shared by every thread: a table of any thread is read
sql_Shared(conns, thread, name) ==
    IF \E t \in DOMAIN conns : name \in DOMAIN conns[t]
    THEN [kind |-> "table", dataset |-> name,
          frame |-> conns[CHOOSE t \in DOMAIN conns : name \in DOMAIN conns[t]][name]]
    ELSE Error("DatabaseError")

\* lines 137-139: sql('SELECT * FROM name') on the calling thread's
\* connection: the table, or the error of a table that is not there
sql(conns, thread, name) ==
    IF name \in DOMAIN get_sqlite_conn(conns, thread)[thread]
    THEN [kind |-> "table", dataset |-> name,
          frame |-> get_sqlite_conn(conns, thread)[thread][name]]
    ELSE Error("DatabaseError")

(***************************************************************************)
(* The frames, ranges and calls given to the storage                       *)
(***************************************************************************)
\* the most rows of a frame
MaxRows == 2

Customer == <<"c", "u", "s", "t", "o", "m", "e", "r">>

AmountNum == <<"a", "m", "o", "u", "n", "t", "_", "n", "u", "m">>

NetAmount == <<"N", "e", "t", "_", "A", "m", "o", "u", "n", "t">>

FeeValue == <<"f", "e", "e", "_", "v", "a", "l", "u", "e">>

\* the column names of a frame, in order
Layouts ==
    { <<Customer, AmountNum>>, <<Customer, NetAmount>>,
      <<FeeValue, Customer, AmountNum>>, <<Customer>> }

Dtypes == {"int64", "float64", "Decimal"}

\* the amounts of a column of the dtype, in tenths: whole numbers for int64,
\* tenths and a missing value for the others
AmountCells(dtype) ==
    IF dtype = "int64" THEN {StoredCell(FALSE, 10, ""), StoredCell(FALSE, 20, "")}
    ELSE {StoredCell(FALSE, 1, ""), StoredCell(FALSE, 3, ""), StoredCell(TRUE, 0, "")}

\* the fees of a column of the dtype, in tenths
FeeCells(dtype) == IF dtype = "int64" THEN {10, 20} ELSE {2, 20}

\* the rows over the names: a label under customer, a fee under fee_value, an
\* amount under the other names
RowsOf(names, dtype) ==
    {[n \in {names[i] : i \in DOMAIN names} |->
         IF n = Customer THEN StoredCell(FALSE, 0, "A")
         ELSE IF n = FeeValue THEN StoredCell(FALSE, fee, "")
         ELSE c] :
        <<c, fee>> \in AmountCells(dtype) \X FeeCells(dtype)}

Frames ==
    {[names |-> names, index |-> <<>>, dtype |-> dtype, rows |-> rows] :
        <<names, dtype, rows>> \in
            UNION {{<<n, d, r>> : r \in StringsUpTo(RowsOf(n, d), MaxRows)} :
                      <<n, d>> \in Layouts \X Dtypes}}

\* the bounds of a range, in tenths
Bounds == {1, 3, 10}

Ranges == {<<>>} \cup {<<low, high>> : <<low, high>> \in Bounds \X Bounds}

DatasetNames == {"test"}

\* the thread of the calls when there is one thread
MainThread == "A"

ColumnTypes == <<>>

InitStorage ==
    /\ df \in Frames
    /\ amount_range \in Ranges
    /\ dataframes = <<>>
    /\ queried = Pending
    /\ local = <<>> /\ stored_by = <<>>
    /\ ParserIdle
    /\ detect_series = <<>> /\ table = <<>> /\ oracle = {} /\ detection = Pending
    /\ filters = "default" /\ threads = <<>>

\* DataStorage.store(name, df, column_types, index_cols), index_cols none or
\* one numeric column of df
Store ==
    \E name \in DatasetNames :
    \E index_cols \in {<<>>} \cup {<<df.names[i]>> : i \in {j \in DOMAIN df.names : df.names[j] # Customer}} :
        /\ dataframes' = store(dataframes, name, df, ColumnTypes, index_cols)
        /\ local' = to_sql(local, MainThread, name, df)
        /\ stored_by' = [t \in {MainThread} |-> df]
        /\ queried' = Pending
        /\ UNCHANGED <<df, amount_range, parserVars, detectorVars, threadVars>>

\* DataStorage.query(dataset, amount_range=amount_range)
Query ==
    \E dataset \in DatasetNames :
        /\ queried' = query(dataframes, dataset, amount_range)
        /\ UNCHANGED <<df, amount_range, dataframes, local, stored_by,
                       parserVars, detectorVars, threadVars>>

SpecStorage == InitStorage /\ [][Store \/ Query]_vars

\* C17: after store(name, df, ...) without index columns,
\* query(name, amount_range=(low, high)) returns the stored rows whose value
\* in the first column named after an amount or a value is within
\* low <= value <= high, both bounds included, in stored order and with all
\* their columns; the stored dataset is as it was stored.
C17_RangeQuery ==
    (/\ queried.kind = "frame"
     /\ amount_range # <<>>
     /\ dataframes[queried.dataset].frame.index = <<>>
     /\ FirstAmountName(df.names) # <<>>)
        => /\ dataframes[queried.dataset].frame = df
           /\ queried.frame.names = df.names
           /\ queried.frame.rows =
                 SelectSeq(df.rows, LAMBDA r :
                     /\ ~r[FirstAmountName(df.names)].null
                     /\ amount_range[1] <= r[FirstAmountName(df.names)].tenths
                     /\ r[FirstAmountName(df.names)].tenths <= amount_range[2])

(***************************************************************************)
(* C18..C20: commas only, several dots, signed suffix amounts              *)
(***************************************************************************)
D1_5 == [neg |-> FALSE, digs |-> <<1, 5>>, exp |-> -1]

D1234 == [neg |-> FALSE, digs |-> <<1, 2, 3, 4>>, exp |-> 0]

D1234567 == [neg |-> FALSE, digs |-> <<1, 2, 3, 4, 5, 6, 7>>, exp |-> 0]

\* C18: when the cleaned string holds ',' and no '.', and it ends in a comma
\* followed by one or two digits, the LAST comma is the decimal point and the
\* earlier commas are removed ('1,234,56' = 1234.56, '1,5' = 1.5); otherwise
\* every comma is removed ('1,234' = 1234, '1,234,567' = 1234567).
C18_CommasOnly ==
    (amount # Pending /\ raw # Null) =>
        LET f == SignForm(Strip(raw))
            c == CleanAmount(f.s)
        IN  /\ (~SuffixMatch(f.s) /\ Contains(c, ",") /\ ~Contains(c, "."))
                  => amount = Converted(f.sign,
                                 IF CommaDecimalTail(c) THEN LastSeparatorDecimal(c)
                                 ELSE Remove(c, ","))
            /\ raw = <<"1", ",", "2", "3", "4", ",", "5", "6">> => amount = Value(D1234_56)
            /\ raw = <<"1", ",", "5">> => amount = Value(D1_5)
            /\ raw = <<"1", ",", "2", "3", "4">> => amount = Value(D1234)
            /\ raw = <<"1", ",", "2", "3", "4", ",", "5", "6", "7">>
                  => amount = Value(D1234567)

D1234_567 == [neg |-> FALSE, digs |-> <<1, 2, 3, 4, 5, 6, 7>>, exp |-> -3]

\* C19: when more than one '.' remains after the separators are resolved,
\* only the last dot is kept: the fragments before it are joined as the
\* integer part and the last fragment is the fraction, so '1.234.567' is
\* 1234.567, and an input whose fragments are digits never fails.
C19_LastDotKept ==
    (amount # Pending /\ raw # Null) =>
        LET f == SignForm(Strip(raw))
            r == Regional(CleanAmount(f.s))
        IN  /\ (~SuffixMatch(f.s) /\ Count(r, ".") > 1)
                  => /\ amount = Converted(f.sign, LastSeparatorDecimal(r))
                     /\ (\E i \in DOMAIN r : IsDigit(r[i])) /\ ~Contains(r, "-")
                           => amount.kind = "value"
            /\ raw = <<"1", ".", "2", "3", "4", ".", "5", "6", "7">>
                  => amount = Value(D1234_567)

C19_Witness ==
    /\ raw = <<"1", ".", "2", "3", "4", ".", "5", "6", "7">>
    /\ amount = Value(D1234_567)

\* what stands under a negative surface form: after a leading '-', before a
\* trailing '-', or inside parentheses
SignedInner(s) ==
    IF StartsWith(s, "(") /\ EndsWith(s, ")") THEN SubSeq(s, 2, Len(s) - 1)
    ELSE IF EndsWith(s, "-") THEN SubSeq(s, 1, Len(s) - 1)
    ELSE Tail(s)

\* s is a <number><K|M|B> under a negative surface form
IsSignedSuffix(s) ==
    /\ ShowsNegative(s)
    /\ Len(SignedInner(s)) >= 2
    /\ SignedInner(s)[Len(SignedInner(s))] \in SuffixLetter
    /\ IsPlainNumber(SubSeq(SignedInner(s), 1, Len(SignedInner(s)) - 1))

\* the negative of d
Negated(d) == [d EXCEPT !.neg = TRUE]

\* C20: the sign of the surface form is applied to suffix amounts: a
\* <number><K|M|B> written with a leading '-', a trailing '-' or inside
\* parentheses ('-1.2K', '(2.5M)') parses to the negative of number x
\* multiplier.
C20_SignedSuffix ==
    (amount # Pending /\ raw # Null /\ IsSignedSuffix(raw)) =>
        LET inner == SignedInner(raw)
            letter == inner[Len(inner)]
        IN  amount = Value(Negated(
                        ExactTimesPow10(DecimalOf(SubSeq(inner, 1, Len(inner) - 1)),
                            CASE letter \in {"K", "k"} -> 3
                              [] letter \in {"M", "m"} -> 6
                              [] letter \in {"B", "b"} -> 9)))

(***************************************************************************)
(* C21..C24: the order and the bars of the attempts                        *)
(***************************************************************************)
\* the success fractions of the temporal rules over the non-null cells of a
\* column, in the order they are tried: the serial rule, the explicit
\* formats, the generic parse
TemporalRules(col, lib) ==
    LET s     == DropNa(col)
        texts == [i \in DOMAIN s |-> StrOf(s[i], Dtype(col))]
    IN  <<SerialAttempt(s, Dtype(col))>>
           \o [i \in DOMAIN COMMON_DATE_FORMATS |-> FormatRate(COMMON_DATE_FORMATS[i], texts)]
           \o <<GenericRate(texts, lib)>>

\* the rules that reach the temporal bar
Accepting(rules) == {i \in DOMAIN rules : AtLeast(rules[i], DateBar)}

\* C21: the attempts run in a fixed order and the first acceptance wins: a
\* column that reaches the temporal bar under some rule is temporal, also
\* when it reaches the numeric bar, with the confidence of the first rule
\* that reached 0.95; the numeric attempt decides only when no temporal rule
\* accepted.
C21_FirstAcceptanceWins ==
    (detection.kind = "detected" /\ DropNa(detect_series) # <<>>) =>
        LET rules == TemporalRules(detect_series, oracle)
            hits  == Accepting(rules)
        IN  IF hits # {}
            THEN detection = Detected("datetime",
                                 rules[CHOOSE i \in hits : \A j \in hits : i <= j])
            ELSE detection.type # "datetime"

\* a column of one compact date passes both bars
C21_Witness ==
    /\ detect_series = <<TextCell(<<"2", "0", "2", "3", "0", "1", "0", "1">>)>>
    /\ try_number(DropNa(detect_series), Dtype(detect_series)).succ
    /\ detection = Detected("datetime", Rate(1, 1))

\* the last day a pandas Timestamp holds
TimestampMaxDate == [y |-> 2262, m |-> 4, d |-> 11]

\* n days after 1899-12-30 is a date a Timestamp holds
ConvertsAsSerial(n) == EpochOrdinal + n <= ToOrdinal(TimestampMaxDate)

\* every non-null cell is a number strictly between 1000 and 1,000,000
InSerialWindow(col) ==
    \A i \in DOMAIN DropNa(col) :
        /\ DropNa(col)[i].cell = "number"
        /\ DropNa(col)[i].num > 1000 /\ DropNa(col)[i].num < 1000000

\* what detect returns when the serial rule is left out
WithoutSerial(col, lib) ==
    LET later == Tail(TemporalRules(col, lib))
        hits  == Accepting(later)
        num   == try_number(DropNa(col), Dtype(col))
    IN  IF hits # {}
        THEN Detected("datetime", later[CHOOSE i \in hits : \A j \in hits : i <= j])
        ELSE IF num.succ THEN Detected("number", num.conf)
        ELSE Detected("str", One)

\* C22: the serial branch is taken only when every non-null value is a
\* number strictly between 1000 and 1,000,000; then a column whose values
\* all convert as day offsets from 1899-12-30 is temporal with the converted
\* fraction as confidence (amounts such as 1500, 2500 are temporal, not
\* numeric); when some value is <= 1000 or >= 1,000,000 the branch is skipped.
C22_SerialWindow ==
    (detection.kind = "detected" /\ DropNa(detect_series) # <<>>) =>
        LET s == DropNa(detect_series)
        IN  /\ (/\ InSerialWindow(detect_series)
                /\ \A i \in DOMAIN s : ConvertsAsSerial(s[i].num))
                  => detection = Detected("datetime", Rate(Len(s), Len(s)))
            /\ ~InSerialWindow(detect_series)
                  => detection = WithoutSerial(detect_series, oracle)
            /\ detect_series = <<NumberCell(1500), NumberCell(2500)>>
                  => detection.type = "datetime"

\* a numeric column of amounts is temporal
C22_Witness ==
    /\ detect_series = <<NumberCell(1500), NumberCell(2500)>>
    /\ detection = Detected("datetime", Rate(2, 2))

\* the text of a cell as the numeric check sees it: currency signs, commas
\* and blanks removed, parentheses and a trailing minus rewritten
NumericText(c, dtype) ==
    NumMoveTrailingMinus(NumUnwrapParens(NumStripFormatting(StrOf(c, dtype))))

\* the number of non-null cells of a column that pass the numeric check
NumericPasses(col) ==
    Cardinality({i \in DOMAIN DropNa(col) : NumParse(NumericText(DropNa(col)[i], Dtype(col)))})

\* C23: when the temporal attempt fails, detect returns (numeric, c) exactly
\* when c >= 0.6, c the fraction of the non-null cells that pass the numeric
\* check, and (text, 1.0) when c < 0.6; null cells are not in the
\* denominator.
C23_NumericBar ==
    (/\ detection.kind = "detected"
     /\ DropNa(detect_series) # <<>>
     /\ Accepting(TemporalRules(detect_series, oracle)) = {}) =>
        LET k == NumericPasses(detect_series)
            n == Len(DropNa(detect_series))
        IN  IF 10 * k >= 6 * n
            THEN detection = Detected("number", [num |-> k, den |-> n])
            ELSE detection = Detected("str", One)

\* three numbers of five non-null cells, and three null cells
C23_Witness ==
    /\ detect_series =
          Cells(TextCell(<<"7">>), 3) \o Cells(TextCell(<<"x">>), 2) \o Cells(NullCell, 3)
    /\ detection = Detected("number", [num |-> 3, den |-> 5])

\* digits followed by a minus sign, as in '1234-'
IsTrailingMinus(x) == Len(x) >= 2 /\ x[Len(x)] = "-" /\ AllDigits(SubSeq(x, 1, Len(x) - 1))

\* digits inside parentheses, as in '(1234)'
IsParenthesized(x) ==
    Len(x) >= 3 /\ x[1] = "(" /\ x[Len(x)] = ")" /\ AllDigits(SubSeq(x, 2, Len(x) - 1))

\* every non-null cell is a text that, once currency signs, commas and blanks
\* are removed, is a trailing-minus or a parenthesized amount
NegativeAmounts(col) ==
    \A i \in DOMAIN DropNa(col) :
        /\ DropNa(col)[i].cell = "text"
        /\ \/ IsTrailingMinus(NumStripFormatting(DropNa(col)[i].text))
           \/ IsParenthesized(NumStripFormatting(DropNa(col)[i].text))

\* C24: in the numeric attempt '(1234)' and '1234-' are both rewritten to
\* '-1234' and count as numbers, so a column made only of such amounts, when
\* no temporal rule takes it, is numeric with confidence 1.0.
C24_NegativeForms ==
    (/\ detection.kind = "detected"
     /\ DropNa(detect_series) # <<>>
     /\ NegativeAmounts(detect_series)
     /\ Accepting(TemporalRules(detect_series, oracle)) = {}) =>
        detection = Detected("number",
                        [num |-> Len(DropNa(detect_series)), den |-> Len(DropNa(detect_series))])

(***************************************************************************)
(* One DataStorage used from two threads                                   *)
(***************************************************************************)
StorageThreads == {"A", "B"}

LedgerRow(label, tenths) ==
    [n \in {Customer, AmountNum} |->
        IF n = Customer THEN StoredCell(FALSE, 0, label) ELSE StoredCell(FALSE, tenths, "")]

LedgerFrame(dtype, rows) ==
    [names |-> <<Customer, AmountNum>>, index |-> <<>>, dtype |-> dtype, rows |-> rows]

SharedFrames ==
    { LedgerFrame("int64", <<LedgerRow("B", 20), LedgerRow("A", 10)>>),
      LedgerFrame("Decimal", <<LedgerRow("A", 1)>>),
      LedgerFrame("Decimal", <<LedgerRow("B", 3), LedgerRow("B", 1)>>) }

InitSharing ==
    /\ df \in SharedFrames
    /\ amount_range = <<>>
    /\ dataframes = <<>>
    /\ queried = Pending
    /\ local = <<>> /\ stored_by = <<>>
    /\ ParserIdle
    /\ detect_series = <<>> /\ table = <<>> /\ oracle = {} /\ detection = Pending
    /\ filters = "default" /\ threads = <<>>

\* what the thread t got from the call op
Got(t, op, result) == [kind |-> "call", thread |-> t, op |-> op, result |-> result]

\* store(name, f, column_types, index_cols) on the thread t
StoreOn(t) ==
    \E f \in SharedFrames, name \in DatasetNames, index_cols \in {<<>>, <<AmountNum>>} :
        /\ df' = f
        /\ dataframes' = store(dataframes, name, f, ColumnTypes, index_cols)
        /\ local' = to_sql(local, t, name, f)
        /\ stored_by' = [u \in DOMAIN stored_by \cup {t} |-> IF u = t THEN f ELSE stored_by[u]]
        /\ queried' = Pending
        /\ UNCHANGED <<amount_range, parserVars, detectorVars, threadVars>>

\* query(dataset) on the thread t
QueryOn(t) ==
    \E dataset \in DatasetNames :
        /\ queried' = Got(t, "query", query(dataframes, dataset, amount_range))
        /\ UNCHANGED <<df, amount_range, dataframes, local, stored_by,
                       parserVars, detectorVars, threadVars>>

\* aggregate(dataset, ['customer'], {'amount_num': 'count'}) on the thread t
AggregateOn(t) ==
    \E dataset \in DatasetNames :
        /\ queried' = Got(t, "aggregate", aggregate(dataframes, dataset, Customer, AmountNum))
        /\ UNCHANGED <<df, amount_range, dataframes, local, stored_by,
                       parserVars, detectorVars, threadVars>>

\* sql('SELECT * FROM name') on the thread t
SqlOn(t) ==
    \E name \in DatasetNames :
        /\ queried' = Got(t, "sql", sql(local, t, name))
        /\ local' = get_sqlite_conn(local, t)
        /\ UNCHANGED <<df, amount_range, dataframes, stored_by,
                       parserVars, detectorVars, threadVars>>

NextSharing ==
    \/ \E t \in StorageThreads : StoreOn(t)
    \/ \E t \in StorageThreads : QueryOn(t)
    \/ \E t \in StorageThreads : AggregateOn(t)
    \/ \E t \in StorageThreads : SqlOn(t)

SpecSharing == InitSharing /\ [][NextSharing]_vars

\* the same rows, in whatever order
SameRows(a, b) == Len(a) = Len(b) /\ {a[i] : i \in DOMAIN a} = {b[i] : i \in DOMAIN b}

\* C25: the dataframes are shared by all threads and the SQLite tables are
\* each thread's own: once store(name, ...) has run on some thread, query and
\* aggregate succeed on every thread and see the frame stored last; sql on a
\* thread reads the table exactly when store(name, ...) has run on that
\* thread, and reads what that thread stored last.
C25_PerThreadTables ==
    queried.kind = "call" =>
        LET r == queried.result
            t == queried.thread
        IN  /\ (queried.op = "query" /\ stored_by # <<>>)
                  => r.kind = "frame" /\ SameRows(r.frame.rows, df.rows)
            /\ (queried.op = "aggregate" /\ stored_by # <<>>)
                  => /\ r.kind = "groups"
                     /\ DOMAIN r.groups = {df.rows[i][Customer].label : i \in DOMAIN df.rows}
            /\ queried.op = "sql"
                  => /\ r.kind = "table" <=> t \in DOMAIN stored_by
                     /\ r.kind = "table"
                           => /\ r.frame.names = stored_by[t].names
                              /\ r.frame.rows = stored_by[t].rows

\* sql on B finds no table after store ran on A alone, and query on B succeeds
C25_Witness ==
    /\ queried = Got("B", "sql", Error("DatabaseError"))
    /\ DOMAIN stored_by = {"A"}
    /\ query(dataframes, "test", <<>>).kind = "frame"

====
